---- MODULE Spec2Model ----
(***************************************************************************)
(* A model of irdata_js: the OAuth2 token store and refresh logic of       *)
(* AuthManager and the refresh-and-retry fetch pipeline of IRacingClient.  *)
(*                                                                         *)
(* JavaScript runs one task at a time; a task is suspended only at an      *)
(* await.  Every action below is the code that runs between two           *)
(* suspension points of one invocation, so the interleavings of the        *)
(* actions are the interleavings the event loop can produce.               *)
(***************************************************************************)
EXTENDS Integers, Sequences, FiniteSets, TLC

(* ------------------------------------------------------------------ *)
(* Bounds and value sets                                               *)
(* ------------------------------------------------------------------ *)

\* Number of request/getData invocations that may be in flight together.
NumProcs == 2

Procs == 1..NumProcs

\* null / undefined of the source (an absent token, an omitted argument).
NULL == "null"

\* Access and refresh token strings a server may issue or a caller may supply.
AccessTokens == {"a1", "a2"}
RefreshTokens == {"r1", "r2"}

\* Resource paths a caller asks for.
Endpoints == {"/member/info", "/series/get"}

\* Payloads of successful data responses.
Payloads == {"d1", "d2"}

\* JavaScript truthiness of a string | null value: null and "" are falsy.
Truthy(v) == v # NULL /\ v # ""

(* ------------------------------------------------------------------ *)
(* State                                                               *)
(* ------------------------------------------------------------------ *)

VARIABLES
    tokenStore,   \* AuthManager.tokenStore: [accessToken, refreshToken]
    clientId,     \* AuthManager.config.clientId ("" when not configured)
    authReq,      \* refresh POST in flight for a direct refreshAccessToken() call, or NULL
    lastOp,       \* the AuthManager operation that ran last, with its arguments and result
    pc,           \* per invocation of requestInternal: where it is suspended
    url,          \* per invocation: the local const url
    req,          \* per invocation: the data request in flight (url and headers), or NULL
    tokenReq,     \* per invocation: the refresh POST in flight, or NULL
    response,     \* per invocation: the local variable response
    received,     \* per invocation: the last HTTP response the data API delivered to it
    refreshed,    \* per invocation: what refreshAccessToken() returned, or NULL
    granted,      \* per invocation: the access token its successful refresh was answered with
    nData,        \* per invocation: data requests sent
    nPosts,       \* per invocation: refresh POSTs sent
    result,       \* per invocation: what the call returned or threw, or NULL
    hasWindow,    \* typeof window !== 'undefined' (with its storages and history)
    redirectUri,  \* AuthManager.config.redirectUri ("" when not configured)
    location,     \* window.location.href, NULL without a window
    sessionVerifier, \* sessionStorage item irdata_pkce_verifier, NULL when absent
    pkceVerifier, \* AuthManager.pkceVerifier
    genVerifier,  \* the verifier of a generateAuthUrl() awaiting its challenge, or NULL
    cbReq,        \* code exchange POST in flight for handleCallback(), or none
    cbError,      \* what the last handleCallback() threw, or none
    ha,           \* handleAuthentication(): where it is suspended, what its
                  \* handleCallback() did (cb) and its refreshAccessToken() returned (rt)
    fileProxyUrl, \* IRacingClient.fileProxyUrl, NULL when not configured
    gd,           \* getData(): where it is suspended, its fetchExternal request,
                  \* the external fetches it sent and what it returned or threw
    meta,         \* getData(): the sizes and durations it was handed and the
                  \* metadata of the DataResult it returned
    ck,           \* getChunk() / getChunks(): the chunk fetches sent, the answers
                  \* received and what the call returned or threw
    pr,           \* processResponse(): the content-type header and the body of
                  \* the response it is given, and what it returned or threw
    ur,           \* requestInternal(): this.apiUrl, the endpoint and the URL
                  \* built from them
    gv,           \* PKCEHelper.generateVerifier(): the random values it draws and
                  \* the string it returns
    cb            \* handleCallback() invoked concurrently: for each invocation
                  \* the exchange it sent and how it ended

vars == <<tokenStore, clientId, authReq, lastOp, pc, url, req, tokenReq,
          response, received, refreshed, granted, nData, nPosts, result,
          hasWindow, redirectUri, location, sessionVerifier, pkceVerifier,
          genVerifier, cbReq, cbError, ha, fileProxyUrl, gd, meta, ck, pr, ur, gv,
          cb>>

authVars == <<tokenStore, clientId, authReq, lastOp>>
procVars == <<pc, url, req, tokenReq, response, received, refreshed, granted, nData, nPosts,
              result, fileProxyUrl, gd, meta, ck, pr, ur, gv, cb>>
oauthVars == <<hasWindow, redirectUri, location, sessionVerifier, pkceVerifier,
               genVerifier, cbReq, cbError, ha>>

(* ------------------------------------------------------------------ *)
(* Token store (InMemoryTokenStore / LocalStorageTokenStore)           *)
(* ------------------------------------------------------------------ *)

EmptyStore == [accessToken |-> NULL, refreshToken |-> NULL]

getAccessToken(store) == store.accessToken

getRefreshToken(store) == store.refreshToken

setAccessToken(store, token) == [store EXCEPT !.accessToken = token]

setRefreshToken(store, token) == [store EXCEPT !.refreshToken = token]

clear(store) == [accessToken |-> NULL, refreshToken |-> NULL]

(* ------------------------------------------------------------------ *)
(* AuthManager: synchronous operations                                 *)
(* ------------------------------------------------------------------ *)

\* The session check that never finds a session.
isLoggedInNever(store) == FALSE

\* get isLoggedIn(): !!this.accessToken
isLoggedIn(store) == Truthy(getAccessToken(store))

\* A header map is a set of <<name, value>> pairs.
Bearer(token) == <<"Bearer", token>>

\* The Authorization header is built whether or not a token is stored.
getAuthHeadersAlways(store) == {<<"Authorization", Bearer(getAccessToken(store))>>}

getAuthHeaders(store) ==
    IF Truthy(getAccessToken(store))
    THEN {<<"Authorization", Bearer(getAccessToken(store))>>}
    ELSE {}

\* setSession(accessToken, refreshToken?)
setSession(store, access, refresh) ==
    IF Truthy(refresh)
    THEN setRefreshToken(setAccessToken(store, access), refresh)
    ELSE setAccessToken(store, access)

\* A logout that forgets the refresh token.
logoutAccessOnly(store) == [store EXCEPT !.accessToken = NULL]

\* logout()
logout(store) == clear(store)

(* ------------------------------------------------------------------ *)
(* AuthManager.refreshAccessToken                                      *)
(* ------------------------------------------------------------------ *)

\* What the token endpoint may answer to a refresh POST: a 2xx response with an
\* access token and, optionally, a rotated refresh token; a non-2xx response;
\* or no response at all (fetch rejects: a transport fault).
TokenResponses ==
    {[kind |-> "ok", access_token |-> a, refresh_token |-> r] :
        a \in AccessTokens, r \in RefreshTokens \cup {NULL}}
    \cup {[kind |-> "bad", access_token |-> NULL, refresh_token |-> NULL],
          [kind |-> "fault", access_token |-> NULL, refresh_token |-> NULL]}

\* The configuration check made before the refresh token check.
refreshPrecheckClientFirst(store, cid) ==
    IF ~Truthy(cid) THEN "threw"
    ELSE IF ~Truthy(getRefreshToken(store)) THEN "false"
    ELSE "post"

\* The part of refreshAccessToken that runs before its first await:
\* "false" (returns false), "threw" (throws), or "post" (sends the POST).
refreshPrecheck(store, cid) ==
    IF ~Truthy(getRefreshToken(store)) THEN "false"
    ELSE IF ~Truthy(cid) THEN "threw"
    ELSE "post"

\* No request in flight.
NoPost == [grant_type |-> NULL, client_id |-> NULL, refresh_token |-> NULL]

\* The form body of the refresh POST.
refreshBody(store, cid) ==
    [grant_type |-> "refresh_token", client_id |-> cid,
     refresh_token |-> getRefreshToken(store)]

\* A non-2xx answer that removes the access token only.
refreshOnResponsePartialClear(store, t) ==
    IF t.kind = "fault" THEN [store |-> store, ret |-> "false"]
    ELSE IF t.kind = "bad" THEN [store |-> setAccessToken(store, NULL), ret |-> "false"]
    ELSE [store |-> IF Truthy(t.refresh_token)
                    THEN setRefreshToken(setAccessToken(store, t.access_token),
                                         t.refresh_token)
                    ELSE setAccessToken(store, t.access_token),
          ret |-> "true"]

\* A transport fault handled like a non-2xx answer.
refreshOnResponseFaultClears(store, t) ==
    IF t.kind \in {"fault", "bad"} THEN [store |-> clear(store), ret |-> "false"]
    ELSE [store |-> IF Truthy(t.refresh_token)
                    THEN setRefreshToken(setAccessToken(store, t.access_token),
                                         t.refresh_token)
                    ELSE setAccessToken(store, t.access_token),
          ret |-> "true"]

\* A 2xx answer whose refresh_token field is stored whether present or not.
refreshOnResponseAlwaysRotates(store, t) ==
    IF t.kind = "fault" THEN [store |-> store, ret |-> "false"]
    ELSE IF t.kind = "bad" THEN [store |-> clear(store), ret |-> "false"]
    ELSE [store |-> setRefreshToken(setAccessToken(store, t.access_token),
                                    t.refresh_token),
          ret |-> "true"]

\* refreshAccessToken drops the access token when the fetch rejects.
refreshOnResponseFaultDropsAccess(store, t) ==
    IF t.kind = "fault"
    THEN [store |-> [store EXCEPT !.accessToken = NULL], ret |-> "false"]
    ELSE IF t.kind = "bad"
    THEN [store |-> clear(store), ret |-> "false"]
    ELSE [store |-> [accessToken |-> t.access_token,
                     refreshToken |-> IF Truthy(t.refresh_token) THEN t.refresh_token
                                      ELSE store.refreshToken],
          ret |-> "true"]

\* The part of refreshAccessToken that runs once the POST is answered: the new
\* token store and the value returned.
refreshOnResponse(store, t) ==
    IF t.kind = "fault" THEN [store |-> store, ret |-> "false"]
    ELSE IF t.kind = "bad" THEN [store |-> clear(store), ret |-> "false"]
    ELSE [store |-> IF Truthy(t.refresh_token)
                    THEN setRefreshToken(setAccessToken(store, t.access_token),
                                         t.refresh_token)
                    ELSE setAccessToken(store, t.access_token),
          ret |-> "true"]

(* ------------------------------------------------------------------ *)
(* Direct calls of the AuthManager operations                          *)
(* ------------------------------------------------------------------ *)

\* An operation, its arguments (or the token response it handled) and its result.
Op(name, kind, access, refresh, ret) ==
    [op |-> name, kind |-> kind, access |-> access, refresh |-> refresh, ret |-> ret]

\* auth.setSession(access, refresh): refresh is NULL when the argument is omitted.
SetSession(access, refresh) ==
    /\ tokenStore' = setSession(tokenStore, access, refresh)
    /\ lastOp' = Op("setSession", NULL, access, refresh, NULL)
    /\ UNCHANGED <<clientId, authReq, procVars>>

\* auth.logout()
Logout ==
    /\ tokenStore' = logout(tokenStore)
    /\ lastOp' = Op("logout", NULL, NULL, NULL, NULL)
    /\ UNCHANGED <<clientId, authReq, procVars>>

\* auth.refreshAccessToken(), up to its first await.
RefreshAccessToken ==
    /\ authReq = NoPost
    /\ LET pre == refreshPrecheck(tokenStore, clientId) IN
        /\ authReq' = IF pre = "post" THEN refreshBody(tokenStore, clientId) ELSE NoPost
        /\ lastOp' = Op("refreshAccessToken", NULL, NULL, NULL,
                        IF pre = "post" THEN NULL ELSE pre)
    /\ UNCHANGED <<tokenStore, clientId, procVars>>

\* auth.refreshAccessToken(), from the answer of the token endpoint to its return.
RefreshAccessTokenResponse(t) ==
    /\ authReq # NoPost
    /\ LET r == refreshOnResponse(tokenStore, t) IN
        /\ tokenStore' = r.store
        /\ lastOp' = Op("refreshResponse", t.kind, t.access_token, t.refresh_token, r.ret)
    /\ authReq' = NoPost
    /\ UNCHANGED <<clientId, procVars>>

(* ------------------------------------------------------------------ *)
(* AuthManager: OAuth2 PKCE (generateAuthUrl, handleCallback)          *)
(* ------------------------------------------------------------------ *)

\* PKCEHelper.generateVerifier() returns a fresh random string.
Verifiers == {"v1", "v2"}

\* Authorization codes issued by the authorization server.
Codes == {"c1", "c2"}

\* What a caller may pass to handleCallback(codeOrUrl): nothing (NULL), a bare
\* code, a callback URL with a code, a URL without one, a relative URL with a
\* code, and two strings that new URL() rejects and the fallback regex does not
\* match.
CallbackInputs ==
    {NULL, "c1", "http://localhost/callback?code=c1", "http://localhost/home",
     "/callback?code=c2", "http://", "code=c1"}

\* window.location.href when the page is loaded.
Locations == {"http://localhost/home", "http://localhost/callback?code=c1"}

\* input.includes('code=')
includesCode(s) ==
    s \in {"http://localhost/callback?code=c1", "/callback?code=c2", "code=c1"}

\* input.startsWith('http')
startsWithHttp(s) ==
    s \in {"http://localhost/callback?code=c1", "http://localhost/home",
           "http://localhost/callback", "http://", "https://s3.example.com/f1"}

\* new URL(input) succeeds: input is an absolute URL with a host.
parses(s) ==
    s \in {"http://localhost/callback?code=c1", "http://localhost/home",
           "http://localhost/callback"}

\* new URL(input).searchParams.get('code'), NULL when there is no such parameter.
searchParamCode(s) == IF s = "http://localhost/callback?code=c1" THEN "c1" ELSE NULL

\* input.match(/[?&]code=([\w-]+)/): the captured group, NULL when no match.
regexCode(s) ==
    IF s = "http://localhost/callback?code=c1" THEN "c1"
    ELSE IF s = "/callback?code=c2" THEN "c2"
    ELSE NULL

\* url.searchParams.delete('code'); url.toString()
deleteCode(s) ==
    IF s = "http://localhost/callback?code=c1" THEN "http://localhost/callback" ELSE s

\* The input handleCallback works on: its argument, or the current URL in a browser.
callbackInput(codeOrUrl, win, loc) ==
    IF ~Truthy(codeOrUrl) /\ win THEN loc ELSE codeOrUrl

\* The code handleCallback derives from its input: go is FALSE where it
\* returns early, and code is the value it goes on with otherwise.
extractCode(input) ==
    IF ~Truthy(input) THEN [go |-> FALSE, code |-> NULL]
    ELSE IF includesCode(input) \/ startsWithHttp(input)
    THEN IF parses(input)
         THEN IF Truthy(searchParamCode(input))
              THEN [go |-> TRUE, code |-> searchParamCode(input)]
              ELSE IF startsWithHttp(input)
                   THEN [go |-> FALSE, code |-> NULL]
                   ELSE [go |-> TRUE, code |-> input]
         ELSE IF regexCode(input) # NULL
              THEN [go |-> TRUE, code |-> regexCode(input)]
              ELSE [go |-> TRUE, code |-> input]
    ELSE [go |-> TRUE, code |-> input]

\* The verifier is read and left in place.
takeVerifierKeeps(win, sess, pkce) ==
    LET fromSession == IF win /\ Truthy(sess) THEN sess ELSE ""
        usePkce == ~Truthy(fromSession) /\ Truthy(pkce)
    IN [verifier |-> IF usePkce THEN pkce ELSE fromSession,
        session |-> sess,
        pkce |-> pkce]

\* The verifier lookup of handleCallback: the verifier found ("" when none),
\* and what is left in sessionStorage and in this.pkceVerifier.
takeVerifier(win, sess, pkce) ==
    LET fromSession == IF win /\ Truthy(sess) THEN sess ELSE ""
        usePkce == ~Truthy(fromSession) /\ Truthy(pkce)
    IN [verifier |-> IF usePkce THEN pkce ELSE fromSession,
        session |-> IF win THEN NULL ELSE sess,
        pkce |-> IF usePkce THEN NULL ELSE pkce]

\* No code exchange in flight.
NoExchange ==
    [grant_type |-> NULL, client_id |-> NULL, redirect_uri |-> NULL,
     code |-> NULL, code_verifier |-> NULL]

\* The form body of the code exchange POST.
exchangeBody(cid, ruri, code, verifier) ==
    [grant_type |-> "authorization_code", client_id |-> cid, redirect_uri |-> ruri,
     code |-> code, code_verifier |-> verifier]

\* No error raised.
NoError == [name |-> NULL, message |-> NULL, status |-> 0, statusText |-> NULL, body |-> NULL]

\* new Error('No PKCE verifier found')
NoVerifierError ==
    [name |-> "Error", message |-> "No PKCE verifier found", status |-> 0,
     statusText |-> NULL, body |-> NULL]

\* The rejection of fetch itself.
FetchFault ==
    [name |-> "TypeError", message |-> "fetch failed", status |-> 0,
     statusText |-> NULL, body |-> NULL]

\* The missing verifier goes unnoticed and the POST is sent without one.
callbackStartNoCheck(codeOrUrl, win, loc, sess, pkce, cid, ruri) ==
    LET c == extractCode(callbackInput(codeOrUrl, win, loc))
        v == takeVerifier(win, sess, pkce)
    IN IF ~c.go
       THEN [outcome |-> "returned", session |-> sess, pkce |-> pkce,
             body |-> NoExchange, error |-> NoError]
       ELSE [outcome |-> "post", session |-> v.session, pkce |-> v.pkce,
             body |-> exchangeBody(cid, ruri, c.code, v.verifier), error |-> NoError]

\* The stored verifier is read before the await and removed after it.
callbackStartReadsOnly(codeOrUrl, win, loc, sess, pkce, cid, ruri) ==
    LET c == extractCode(callbackInput(codeOrUrl, win, loc))
        v == takeVerifier(win, sess, pkce)
    IN IF ~c.go
       THEN [outcome |-> "returned", session |-> sess, pkce |-> pkce,
             body |-> NoExchange, error |-> NoError]
       ELSE IF ~Truthy(v.verifier)
       THEN [outcome |-> "threw", session |-> sess, pkce |-> pkce,
             body |-> NoExchange, error |-> NoVerifierError]
       ELSE [outcome |-> "post", session |-> sess, pkce |-> pkce,
             body |-> exchangeBody(cid, ruri, c.code, v.verifier), error |-> NoError]

\* handleCallback up to its first await: "returned" (early return), "threw"
\* (no verifier) or "post" (the code exchange is sent), with what is left of
\* the stored verifier.
callbackStart(codeOrUrl, win, loc, sess, pkce, cid, ruri) ==
    LET c == extractCode(callbackInput(codeOrUrl, win, loc))
        v == takeVerifier(win, sess, pkce)
    IN IF ~c.go
       THEN [outcome |-> "returned", session |-> sess, pkce |-> pkce,
             body |-> NoExchange, error |-> NoError]
       ELSE IF ~Truthy(v.verifier)
       THEN [outcome |-> "threw", session |-> v.session, pkce |-> v.pkce,
             body |-> NoExchange, error |-> NoVerifierError]
       ELSE [outcome |-> "post", session |-> v.session, pkce |-> v.pkce,
             body |-> exchangeBody(cid, ruri, c.code, v.verifier), error |-> NoError]

\* What the token endpoint may answer to a code exchange: a 2xx response with
\* an access token and, optionally, a refresh token; a non-2xx response whose
\* body is JSON, text or unreadable; or no response (fetch rejects).
ExchangeResponses ==
    {[kind |-> "ok", status |-> 200, statusText |-> "OK", bodyKind |-> "json",
      body |-> NULL, access_token |-> a, refresh_token |-> r] :
        a \in AccessTokens, r \in RefreshTokens \cup {NULL}}
    \cup {[kind |-> "bad", status |-> 400, statusText |-> "Bad Request",
           bodyKind |-> "json", body |-> "invalid_grant",
           access_token |-> NULL, refresh_token |-> NULL],
          [kind |-> "bad", status |-> 500, statusText |-> "Internal Server Error",
           bodyKind |-> "text", body |-> "oops",
           access_token |-> NULL, refresh_token |-> NULL],
          [kind |-> "bad", status |-> 502, statusText |-> "Bad Gateway",
           bodyKind |-> "none", body |-> "gone",
           access_token |-> NULL, refresh_token |-> NULL],
          [kind |-> "fault", status |-> 0, statusText |-> NULL, bodyKind |-> "none",
           body |-> NULL, access_token |-> NULL, refresh_token |-> NULL]}

\* errorBody: response.json(), else response.text(), else undefined.
errorBody(t) == IF t.bodyKind \in {"json", "text"} THEN t.body ELSE NULL

\* new IRacingAPIError('Failed to exchange code for token: ...', status, statusText, errorBody)
ExchangeError(t) ==
    [name |-> "IRacingAPIError", message |-> "Failed to exchange code for token",
     status |-> t.status, statusText |-> t.statusText, body |-> errorBody(t)]

\* A non-2xx answer to the code exchange ends the session.
exchangeOnResponseClears(store, t) ==
    IF t.kind = "fault" THEN [store |-> store, outcome |-> "threw", error |-> FetchFault]
    ELSE IF t.kind = "bad"
    THEN [store |-> clear(store), outcome |-> "threw", error |-> ExchangeError(t)]
    ELSE [store |-> IF Truthy(t.refresh_token)
                    THEN setRefreshToken(setAccessToken(store, t.access_token),
                                         t.refresh_token)
                    ELSE setAccessToken(store, t.access_token),
          outcome |-> "returned", error |-> NoError]

\* A 2xx answer to the code exchange stores the refresh token only.
exchangeOnResponseRefreshOnly(store, t) ==
    IF t.kind = "fault" THEN [store |-> store, outcome |-> "threw", error |-> FetchFault]
    ELSE IF t.kind = "bad"
    THEN [store |-> store, outcome |-> "threw", error |-> ExchangeError(t)]
    ELSE [store |-> IF Truthy(t.refresh_token)
                    THEN setRefreshToken(store, t.refresh_token)
                    ELSE setAccessToken(store, t.access_token),
          outcome |-> "returned", error |-> NoError]

\* handleCallback once the code exchange is answered: the new token store, and
\* whether it returns or throws (and what).
exchangeOnResponse(store, t) ==
    IF t.kind = "fault" THEN [store |-> store, outcome |-> "threw", error |-> FetchFault]
    ELSE IF t.kind = "bad"
    THEN [store |-> store, outcome |-> "threw", error |-> ExchangeError(t)]
    ELSE [store |-> IF Truthy(t.refresh_token)
                    THEN setRefreshToken(setAccessToken(store, t.access_token),
                                         t.refresh_token)
                    ELSE setAccessToken(store, t.access_token),
          outcome |-> "returned", error |-> NoError]

\* handleAuthentication goes on to the refresh although the exchange logged in.
afterCallbackAlwaysRefreshes(outcome, store, cid) ==
    LET pre == refreshPrecheck(store, cid) IN
    IF pre = "post" THEN [pc |-> "refresh", cleanup |-> FALSE, rt |-> NULL, ret |-> NULL]
    ELSE [pc |-> "idle", cleanup |-> FALSE, rt |-> pre, ret |-> pre]

\* The error of handleCallback reaches the caller of handleAuthentication.
afterCallbackRethrows(outcome, store, cid) ==
    IF outcome = "threw"
    THEN [pc |-> "idle", cleanup |-> FALSE, rt |-> NULL, ret |-> "threw"]
    ELSE IF outcome = "returned" /\ isLoggedIn(store)
    THEN [pc |-> "idle", cleanup |-> TRUE, rt |-> NULL, ret |-> "true"]
    ELSE LET pre == refreshPrecheck(store, cid) IN
         IF pre = "post" THEN [pc |-> "refresh", cleanup |-> FALSE, rt |-> NULL, ret |-> NULL]
         ELSE [pc |-> "idle", cleanup |-> FALSE, rt |-> pre, ret |-> pre]

\* handleAuthentication from the settlement of its handleCallback() to its
\* return or to the refresh POST: where it is next, whether it cleans up the
\* URL, what refreshAccessToken() returned (rt) and what it returns itself (ret).
afterCallback(outcome, store, cid) ==
    IF outcome = "returned" /\ isLoggedIn(store)
    THEN [pc |-> "idle", cleanup |-> TRUE, rt |-> NULL, ret |-> "true"]
    ELSE LET pre == refreshPrecheck(store, cid) IN
         IF pre = "post" THEN [pc |-> "refresh", cleanup |-> FALSE, rt |-> NULL, ret |-> NULL]
         ELSE [pc |-> "idle", cleanup |-> FALSE, rt |-> pre, ret |-> pre]

\* No handleAuthentication in progress, none called yet.
NoAuthentication == [pc |-> "idle", cb |-> NULL, rt |-> NULL]

\* No operation of the AuthManager is in progress: the caller awaits each
\* operation before it calls the next.
Quiet ==
    /\ authReq = NoPost
    /\ cbReq = NoExchange
    /\ genVerifier = NULL
    /\ ha.pc = "idle"

\* generateAuthUrl generates the verifier without looking at the configuration.
GenerateAuthUrlNoCheck(v) ==
    /\ genVerifier = NULL
    /\ lastOp' = Op("generateAuthUrl", NULL, NULL, NULL, NULL)
    /\ genVerifier' = v
    /\ UNCHANGED <<tokenStore, clientId, authReq, hasWindow, redirectUri, location,
                   sessionVerifier, pkceVerifier, cbReq, cbError, ha, procVars>>

\* auth.generateAuthUrl(), up to its await of the challenge; v is the verifier
\* PKCEHelper.generateVerifier() returns.
GenerateAuthUrl(v) ==
    /\ genVerifier = NULL
    /\ IF ~Truthy(clientId) \/ ~Truthy(redirectUri)
       THEN /\ lastOp' = Op("generateAuthUrl", NULL, NULL, NULL, "threw")
            /\ UNCHANGED genVerifier
       ELSE /\ lastOp' = Op("generateAuthUrl", NULL, NULL, NULL, NULL)
            /\ genVerifier' = v
    /\ UNCHANGED <<tokenStore, clientId, authReq, hasWindow, redirectUri, location,
                   sessionVerifier, pkceVerifier, cbReq, cbError, ha, procVars>>

\* auth.generateAuthUrl(), from the challenge to its return.
GenerateAuthUrlResume ==
    /\ genVerifier # NULL
    /\ IF hasWindow
       THEN sessionVerifier' = genVerifier /\ UNCHANGED pkceVerifier
       ELSE pkceVerifier' = genVerifier /\ UNCHANGED sessionVerifier
    /\ genVerifier' = NULL
    /\ lastOp' = Op("generateAuthUrlResume", NULL, NULL, NULL, "url")
    /\ UNCHANGED <<tokenStore, clientId, authReq, hasWindow, redirectUri, location,
                   cbReq, cbError, ha, procVars>>

\* auth.handleCallback(codeOrUrl), up to its await of the code exchange.
HandleCallback(codeOrUrl) ==
    /\ cbReq = NoExchange
    /\ ha.pc = "idle"
    /\ LET s == callbackStart(codeOrUrl, hasWindow, location, sessionVerifier,
                              pkceVerifier, clientId, redirectUri) IN
        /\ sessionVerifier' = s.session
        /\ pkceVerifier' = s.pkce
        /\ cbReq' = s.body
        /\ cbError' = s.error
        /\ lastOp' = Op("handleCallback", codeOrUrl, NULL, NULL,
                        IF s.outcome = "post" THEN NULL ELSE s.outcome)
    /\ UNCHANGED <<tokenStore, clientId, authReq, hasWindow, redirectUri, location,
                   genVerifier, ha, procVars>>

\* auth.handleCallback(codeOrUrl), from the answer of the token endpoint to
\* its return or throw.
HandleCallbackResponse(t) ==
    /\ cbReq # NoExchange
    /\ ha.pc = "idle"
    /\ LET r == exchangeOnResponse(tokenStore, t) IN
        /\ tokenStore' = r.store
        /\ cbError' = r.error
        /\ lastOp' = Op("callbackResponse", t.kind, t.access_token, t.refresh_token,
                        r.outcome)
    /\ cbReq' = NoExchange
    /\ UNCHANGED <<clientId, authReq, hasWindow, redirectUri, location,
                   sessionVerifier, pkceVerifier, genVerifier, ha, procVars>>

\* An invocation of handleCallback not made yet.
NoCallback == [pc |-> "idle", body |-> NoExchange, error |-> NoError]

NoCallbacks == [p \in Procs |-> NoCallback]

\* The state of the client outside the AuthManager and the concurrent
\* invocations of handleCallback.
clientVars == <<pc, url, req, tokenReq, response, received, refreshed, granted, nData,
                nPosts, result, fileProxyUrl, gd, meta, ck, pr, ur, gv>>

\* auth.handleCallback(codeOrUrl) invoked by caller p while other invocations
\* may be awaiting their code exchange: lines 764-827, up to the await of
\* fetch.  The invocation keeps the body of the POST it sent.
ConcurrentHandleCallback(p, codeOrUrl) ==
    /\ cb[p].pc = "idle"
    /\ LET s == callbackStart(codeOrUrl, hasWindow, location, sessionVerifier,
                              pkceVerifier, clientId, redirectUri) IN
        /\ sessionVerifier' = s.session
        /\ pkceVerifier' = s.pkce
        /\ cb' = [cb EXCEPT ![p] = [pc |-> IF s.outcome = "post" THEN "exchange"
                                           ELSE s.outcome,
                                    body |-> s.body, error |-> s.error]]
    /\ UNCHANGED <<authVars, hasWindow, redirectUri, location, genVerifier, cbReq,
                   cbError, ha, clientVars>>

\* The code exchange of caller p's handleCallback is answered: lines 828-852.
ConcurrentCallbackResponse(p, t) ==
    /\ cb[p].pc = "exchange"
    /\ LET r == exchangeOnResponse(tokenStore, t) IN
        /\ tokenStore' = r.store
        /\ cb' = [cb EXCEPT ![p].pc = r.outcome, ![p].error = r.error]
    /\ UNCHANGED <<clientId, authReq, lastOp, oauthVars, clientVars>>

(* ------------------------------------------------------------------ *)
(* AuthManager.handleAuthentication                                    *)
(* ------------------------------------------------------------------ *)

\* auth.handleAuthentication(), up to its first await of a response: the
\* session check, handleCallback() up to its code exchange and, where that
\* returns or throws at once, refreshAccessToken() up to its POST.
HandleAuthentication ==
    /\ ha.pc = "idle"
    /\ cbReq = NoExchange
    /\ authReq = NoPost
    /\ IF isLoggedIn(tokenStore)
       THEN /\ ha' = NoAuthentication
            /\ lastOp' = Op("handleAuthentication", NULL, NULL, NULL, "true")
            /\ UNCHANGED <<sessionVerifier, pkceVerifier, cbReq, cbError, authReq>>
       ELSE LET s == callbackStart(NULL, hasWindow, location, sessionVerifier,
                                   pkceVerifier, clientId, redirectUri)
                n == afterCallback(s.outcome, tokenStore, clientId)
            IN /\ sessionVerifier' = s.session
               /\ pkceVerifier' = s.pkce
               /\ cbReq' = s.body
               /\ cbError' = s.error
               /\ IF s.outcome = "post"
                  THEN /\ ha' = [pc |-> "callback", cb |-> NULL, rt |-> NULL]
                       /\ lastOp' = Op("handleAuthentication", NULL, NULL, NULL, NULL)
                       /\ UNCHANGED authReq
                  ELSE /\ ha' = [pc |-> n.pc, cb |-> s.outcome, rt |-> n.rt]
                       /\ lastOp' = Op("handleAuthentication", NULL, NULL, NULL, n.ret)
                       /\ authReq' = IF n.pc = "refresh"
                                     THEN refreshBody(tokenStore, clientId)
                                     ELSE NoPost
    /\ UNCHANGED <<tokenStore, clientId, hasWindow, redirectUri, location,
                   genVerifier, procVars>>

\* auth.handleAuthentication(), from the answer to its code exchange to its
\* return or to the refresh POST.
HandleAuthenticationCallbackResponse(t) ==
    /\ ha.pc = "callback"
    /\ cbReq # NoExchange
    /\ LET r == exchangeOnResponse(tokenStore, t)
           n == afterCallback(r.outcome, r.store, clientId)
       IN /\ tokenStore' = r.store
          /\ cbError' = r.error
          /\ location' = IF n.cleanup /\ hasWindow THEN deleteCode(location) ELSE location
          /\ authReq' = IF n.pc = "refresh" THEN refreshBody(r.store, clientId) ELSE NoPost
          /\ ha' = [pc |-> n.pc, cb |-> r.outcome, rt |-> n.rt]
          /\ lastOp' = Op("handleAuthenticationCallback", t.kind, t.access_token,
                          t.refresh_token, n.ret)
    /\ cbReq' = NoExchange
    /\ UNCHANGED <<clientId, hasWindow, redirectUri, sessionVerifier, pkceVerifier,
                   genVerifier, procVars>>

\* auth.handleAuthentication(), from the answer to its refresh POST to its return.
HandleAuthenticationRefreshResponse(t) ==
    /\ ha.pc = "refresh"
    /\ authReq # NoPost
    /\ LET r == refreshOnResponse(tokenStore, t) IN
        /\ tokenStore' = r.store
        /\ ha' = [ha EXCEPT !.pc = "idle", !.rt = r.ret]
        /\ lastOp' = Op("handleAuthenticationRefresh", t.kind, t.access_token,
                        t.refresh_token, r.ret)
    /\ authReq' = NoPost
    /\ UNCHANGED <<clientId, hasWindow, redirectUri, location, sessionVerifier,
                   pkceVerifier, genVerifier, cbReq, cbError, procVars>>

(* ------------------------------------------------------------------ *)
(* IRacingClient.requestInternal                                       *)
(* ------------------------------------------------------------------ *)

NoRequest == [url |-> NULL, headers |-> {}]

NoResponse == [kind |-> "none", status |-> 0, statusText |-> NULL, body |-> NULL]

NoResult == [kind |-> "none", status |-> 0, statusText |-> NULL, data |-> NULL]

\* What the data API may answer: 200 with a payload, 401, another non-2xx
\* status, or no response at all (fetch rejects).
DataResponses ==
    {[kind |-> "http", status |-> 200, statusText |-> "OK", body |-> d] : d \in Payloads}
    \cup {[kind |-> "http", status |-> 401, statusText |-> "Unauthorized", body |-> NULL],
          [kind |-> "http", status |-> 403, statusText |-> "Forbidden", body |-> NULL],
          [kind |-> "http", status |-> 500, statusText |-> "Internal Server Error",
           body |-> NULL],
          [kind |-> "fault", status |-> 0, statusText |-> NULL, body |-> NULL]}

\* Response.ok
ok(r) == r.kind = "http" /\ r.status >= 200 /\ r.status <= 299

\* The headers of a data request: the auth headers and Content-Type.
mergedHeaders(store) == getAuthHeaders(store) \cup {<<"Content-Type", "application/json">>}

\* The value requestInternal returns for a 2xx response.
Returned(r) == [kind |-> "data", status |-> r.status, statusText |-> r.statusText,
                data |-> r.body]

\* handleErrorResponse(response): throws the typed API error.
handleErrorResponse(r) ==
    [kind |-> "IRacingAPIError", status |-> r.status, statusText |-> r.statusText,
     data |-> r.body]

\* A rejected fetch outside the try block propagates as it is.
Rejected == [kind |-> "TypeError", status |-> 0, statusText |-> NULL, data |-> NULL]

\* Lines 174-182: what the invocation ends with, given its local response.
Finish(r) == IF ok(r) THEN Returned(r) ELSE handleErrorResponse(r)

\* The retry's answer never assigned to response.
retryOutcomeKeepsFirst(first, r) == first

\* Lines 153-171: response after the retry was sent.  A rejected fetch is caught
\* by the catch of line 169 and leaves response as it was.
retryOutcome(first, r) == IF r.kind = "fault" THEN first ELSE r

\* Line 154: an invocation whose refreshAccessToken has returned true and whose
\* continuation after the await is queued as a microtask.  The microtask queue
\* is drained before the event loop handles the next network event, so until
\* the invocation resumes only continuations queued in the same drain can run:
\* the resumption of another invocation, or the handling of another token
\* response that was delivered together with this one.
ResumePending == \E q \in Procs : pc[q] = "refreshed"

\* request / getData calls requestInternal(endpoint): lines 131-148, up to the
\* first await.
RequestStart(p, endpoint) ==
    /\ pc[p] \in {"idle", "done"}
    /\ ~ResumePending
    /\ pc' = [pc EXCEPT ![p] = "first"]
    /\ url' = [url EXCEPT ![p] = endpoint]
    /\ req' = [req EXCEPT ![p] = [url |-> endpoint, headers |-> mergedHeaders(tokenStore)]]
    /\ tokenReq' = [tokenReq EXCEPT ![p] = NoPost]
    /\ response' = [response EXCEPT ![p] = NoResponse]
    /\ received' = [received EXCEPT ![p] = NoResponse]
    /\ refreshed' = [refreshed EXCEPT ![p] = NULL]
    /\ granted' = [granted EXCEPT ![p] = NULL]
    /\ nData' = [nData EXCEPT ![p] = 1]
    /\ nPosts' = [nPosts EXCEPT ![p] = 0]
    /\ result' = [result EXCEPT ![p] = NoResult]
    /\ UNCHANGED authVars

\* Every non-2xx first response starts a refresh, not only a 401.
FirstResponseRefreshesOnAnyError(p, r) ==
    /\ pc[p] = "first"
    /\ ~ResumePending
    /\ req' = [req EXCEPT ![p] = NoRequest]
    /\ IF r.kind = "fault"
       THEN /\ pc' = [pc EXCEPT ![p] = "done"]
            /\ result' = [result EXCEPT ![p] = Rejected]
            /\ UNCHANGED <<response, received, tokenReq, refreshed, nPosts>>
       ELSE /\ response' = [response EXCEPT ![p] = r]
            /\ received' = [received EXCEPT ![p] = r]
            /\ IF ~ok(r)
               THEN LET pre == refreshPrecheck(tokenStore, clientId) IN
                    IF pre = "post"
                    THEN /\ pc' = [pc EXCEPT ![p] = "refreshing"]
                         /\ tokenReq' = [tokenReq EXCEPT
                                           ![p] = refreshBody(tokenStore, clientId)]
                         /\ nPosts' = [nPosts EXCEPT ![p] = @ + 1]
                         /\ UNCHANGED <<refreshed, result>>
                    ELSE /\ pc' = [pc EXCEPT ![p] = "done"]
                         /\ refreshed' = [refreshed EXCEPT ![p] = pre]
                         /\ result' = [result EXCEPT ![p] = Finish(r)]
                         /\ UNCHANGED <<tokenReq, nPosts>>
               ELSE /\ pc' = [pc EXCEPT ![p] = "done"]
                    /\ result' = [result EXCEPT ![p] = Finish(r)]
                    /\ UNCHANGED <<tokenReq, refreshed, nPosts>>
    /\ UNCHANGED <<url, granted, nData, authVars>>

\* Lines 148-154 and 174-182: the first response arrives.  On a 401 the
\* synchronous part of refreshAccessToken runs in the same task.
FirstResponse(p, r) ==
    /\ pc[p] = "first"
    /\ ~ResumePending
    /\ req' = [req EXCEPT ![p] = NoRequest]
    /\ IF r.kind = "fault"
       THEN /\ pc' = [pc EXCEPT ![p] = "done"]
            /\ result' = [result EXCEPT ![p] = Rejected]
            /\ UNCHANGED <<response, received, tokenReq, refreshed, nPosts>>
       ELSE /\ response' = [response EXCEPT ![p] = r]
            /\ received' = [received EXCEPT ![p] = r]
            /\ IF ~ok(r) /\ r.status = 401
               THEN LET pre == refreshPrecheck(tokenStore, clientId) IN
                    IF pre = "post"
                    THEN /\ pc' = [pc EXCEPT ![p] = "refreshing"]
                         /\ tokenReq' = [tokenReq EXCEPT
                                           ![p] = refreshBody(tokenStore, clientId)]
                         /\ nPosts' = [nPosts EXCEPT ![p] = @ + 1]
                         /\ UNCHANGED <<refreshed, result>>
                    ELSE /\ pc' = [pc EXCEPT ![p] = "done"]
                         /\ refreshed' = [refreshed EXCEPT ![p] = pre]
                         /\ result' = [result EXCEPT ![p] = Finish(r)]
                         /\ UNCHANGED <<tokenReq, nPosts>>
               ELSE /\ pc' = [pc EXCEPT ![p] = "done"]
                    /\ result' = [result EXCEPT ![p] = Finish(r)]
                    /\ UNCHANGED <<tokenReq, refreshed, nPosts>>
    /\ UNCHANGED <<url, granted, nData, authVars>>

\* A retry sent whatever refreshAccessToken returned.
RefreshResponseAlwaysRetries(p, t) ==
    /\ pc[p] = "refreshing"
    /\ tokenReq' = [tokenReq EXCEPT ![p] = NoPost]
    /\ LET r == refreshOnResponse(tokenStore, t) IN
        /\ tokenStore' = r.store
        /\ refreshed' = [refreshed EXCEPT ![p] = r.ret]
        /\ pc' = [pc EXCEPT ![p] = "refreshed"]
        /\ granted' = [granted EXCEPT ![p] = t.access_token]
        /\ UNCHANGED result
    /\ UNCHANGED <<clientId, authReq, lastOp, url, req, response, received, nData, nPosts>>

\* refreshAccessToken called by requestInternal, lines 880-896 of AuthManager:
\* the token endpoint answers.  When it returns false, requestInternal goes on
\* to lines 174-176 without reading the session again.
RefreshResponse(p, t) ==
    /\ pc[p] = "refreshing"
    /\ tokenReq' = [tokenReq EXCEPT ![p] = NoPost]
    /\ LET r == refreshOnResponse(tokenStore, t) IN
        /\ tokenStore' = r.store
        /\ refreshed' = [refreshed EXCEPT ![p] = r.ret]
        /\ IF r.ret = "true"
           THEN /\ pc' = [pc EXCEPT ![p] = "refreshed"]
                /\ granted' = [granted EXCEPT ![p] = t.access_token]
                /\ UNCHANGED result
           ELSE /\ pc' = [pc EXCEPT ![p] = "done"]
                /\ result' = [result EXCEPT ![p] = Finish(response[p])]
                /\ UNCHANGED granted
    /\ UNCHANGED <<clientId, authReq, lastOp, url, req, response, received, nData, nPosts>>

\* Lines 155-167: requestInternal resumes after a refresh that returned true,
\* rebuilds the headers from the session as it is now and sends the retry.
RetrySend(p) ==
    /\ pc[p] = "refreshed"
    /\ pc' = [pc EXCEPT ![p] = "retry"]
    /\ req' = [req EXCEPT ![p] = [url |-> url[p], headers |-> mergedHeaders(tokenStore)]]
    /\ nData' = [nData EXCEPT ![p] = @ + 1]
    /\ UNCHANGED <<url, tokenReq, response, received, refreshed, granted, nPosts, result,
                   authVars>>

\* Lines 167-182: the retry is answered.
RetryResponse(p, r) ==
    /\ pc[p] = "retry"
    /\ ~ResumePending
    /\ pc' = [pc EXCEPT ![p] = "done"]
    /\ req' = [req EXCEPT ![p] = NoRequest]
    /\ received' = [received EXCEPT ![p] = IF r.kind = "fault" THEN @ ELSE r]
    /\ LET last == retryOutcome(response[p], r) IN
        /\ response' = [response EXCEPT ![p] = last]
        /\ result' = [result EXCEPT ![p] = Finish(last)]
    /\ UNCHANGED <<url, tokenReq, refreshed, granted, nData, nPosts, authVars>>

(* ------------------------------------------------------------------ *)
(* IRacingClient.getData and fetchExternal                             *)
(* ------------------------------------------------------------------ *)

\* The invocation of requestInternal that getData awaits.
Caller == 1

\* Payloads the data API may answer a getData request with: an object without
\* a link field, objects whose link is an http URL, a relative path and a
\* number, a text payload, JSON null, and objects with a chunk_info: two file
\* names and num_chunks 2, two file names and num_chunks 3, one file name and
\* no num_chunks.
LinkPayloads ==
    {"obj", "objLinkHttp", "objLinkRelative", "objLinkNumber", "text", "jsonNull",
     "chunked2", "chunkedMismatch", "chunkedNoCount"}

\* Payloads a followed link may be answered with: a file, an object that
\* itself carries an http link, and an object with a chunk_info.
ExternalPayloads == {"file1", "objLinkHttp", "chunked2"}

\* initialData is truthy
truthyData(d) == d \notin {NULL, "jsonNull"}

\* typeof initialData === 'object'
isObject(d) ==
    d \in {"obj", "objLinkHttp", "objLinkRelative", "objLinkNumber", "jsonNull",
           "chunked2", "chunkedMismatch", "chunkedNoCount"}

\* 'link' in initialData
hasLink(d) == d \in {"objLinkHttp", "objLinkRelative", "objLinkNumber"}

\* typeof initialData.link
typeofLink(d) ==
    IF d \in {"objLinkHttp", "objLinkRelative"} THEN "string"
    ELSE IF d = "objLinkNumber" THEN "number"
    ELSE "undefined"

\* initialData.link, for a link that is a string
linkOf(d) ==
    IF d = "objLinkHttp" THEN "https://s3.example.com/f1"
    ELSE IF d = "objLinkRelative" THEN "/local/f1"
    ELSE NULL

\* Lines 249-256: getData follows the link of this payload.
followsLink(d) ==
    /\ truthyData(d)
    /\ isObject(d)
    /\ hasLink(d)
    /\ typeofLink(d) = "string"
    /\ startsWithHttp(linkOf(d))

\* encodeURIComponent(url)
encodeURIComponent(s) ==
    IF s = "https://s3.example.com/f1" THEN "https%3A%2F%2Fs3.example.com%2Ff1"
    ELSE IF s = "https://s3.example.com/chunks/chunk0.json"
    THEN "https%3A%2F%2Fs3.example.com%2Fchunks%2Fchunk0.json"
    ELSE IF s = "https://s3.example.com/chunks/chunk1.json"
    THEN "https%3A%2F%2Fs3.example.com%2Fchunks%2Fchunk1.json"
    ELSE IF s = "https://s3.example.com/chunks/chunk2.json"
    THEN "https%3A%2F%2Fs3.example.com%2Fchunks%2Fchunk2.json"
    ELSE IF s = "https://s3.example.com/chunks/chunk3.json"
    THEN "https%3A%2F%2Fs3.example.com%2Fchunks%2Fchunk3.json"
    ELSE s

\* this.fileProxyUrl.includes('?')
includesQuery(s) == s = "https://proxy.example.com/file?mode=raw"

\* Lines 218-223: the URL fetchExternal fetches, as the parts it is
\* concatenated from.
fetchUrl(link, proxy) ==
    IF Truthy(proxy)
    THEN <<proxy, IF includesQuery(proxy) THEN "&" ELSE "?", "url=",
           encodeURIComponent(link)>>
    ELSE <<link>>

\* No external request sent.
NoExternal == [url |-> <<>>, headers |-> {}]

\* The link is fetched with the headers of the data request.
externalRequestWithAuth(link, proxy, store) ==
    [url |-> fetchUrl(link, proxy), headers |-> mergedHeaders(store)]

\* Line 225: fetch(fetchUrl), without options.
externalRequest(link, proxy, store) == [url |-> fetchUrl(link, proxy), headers |-> {}]

\* What the file host may answer: 200 with a payload, a non-2xx status, or no
\* response at all.
ExternalResponses ==
    {[kind |-> "http", status |-> 200, statusText |-> "OK", body |-> d] :
        d \in ExternalPayloads}
    \cup {[kind |-> "http", status |-> 401, statusText |-> "Unauthorized", body |-> NULL],
          [kind |-> "http", status |-> 403, statusText |-> "Forbidden", body |-> NULL],
          [kind |-> "fault", status |-> 0, statusText |-> NULL, body |-> NULL]}

\* What the data API may answer a getData request with.
LinkResponses ==
    {[kind |-> "http", status |-> 200, statusText |-> "OK", body |-> d] :
        d \in LinkPayloads}
    \cup {[kind |-> "http", status |-> 401, statusText |-> "Unauthorized", body |-> NULL],
          [kind |-> "http", status |-> 403, statusText |-> "Forbidden", body |-> NULL],
          [kind |-> "http", status |-> 500, statusText |-> "Internal Server Error",
           body |-> NULL],
          [kind |-> "fault", status |-> 0, statusText |-> NULL, body |-> NULL]}

\* Date.now() - startTime is at most this many milliseconds.
MaxDuration == 2

\* Date.now() - startTime
Durations == 0 .. MaxDuration

\* response.headers.get('content-length'), NULL when the header is absent.
ContentLengths == {NULL, "120"}

\* parseInt(cl, 10)
parseInt(s) == IF s = "120" THEN 120 ELSE 0

\* new TextEncoder().encode(...).length of a text payload, or of
\* JSON.stringify(data) for a structured one.
byteLength(d) ==
    CASE d = "obj" -> 7
      [] d = "objLinkHttp" -> 36
      [] d = "objLinkRelative" -> 20
      [] d = "objLinkNumber" -> 11
      [] d = "text" -> 5
      [] d = "jsonNull" -> 4
      [] d = "file1" -> 10
      [] d = "chunked2" -> 145
      [] d = "chunkedMismatch" -> 145
      [] d = "chunkedNoCount" -> 104
      [] d = "rows0" -> 30
      [] d = "rows1" -> 59
      [] d = "rows2" -> 30
      [] d = "rows3" -> 59
      [] OTHER -> 0

\* calculateSize(response, data)
calculateSize(cl, d) == IF Truthy(cl) THEN parseInt(cl) ELSE byteLength(d)

\* A payload without a chunk_info.
NoChunkInfo ==
    [present |-> FALSE, base_download_url |-> NULL, chunk_file_names |-> <<>>,
     isArray |-> FALSE, num_chunks |-> <<>>, rows |-> <<>>]

\* data.chunk_info; num_chunks and rows are <<>> where the field is not a
\* number, and isArray is Array.isArray(chunk_file_names).
chunkInfoOf(d) ==
    CASE d = "chunked2" ->
            [present |-> TRUE, base_download_url |-> "https://s3.example.com/chunks/",
             chunk_file_names |-> <<"chunk0.json", "chunk1.json">>, isArray |-> TRUE,
             num_chunks |-> <<2>>, rows |-> <<1000>>]
      [] d = "chunkedMismatch" ->
            [present |-> TRUE, base_download_url |-> "https://s3.example.com/chunks/",
             chunk_file_names |-> <<"chunk0.json", "chunk1.json">>, isArray |-> TRUE,
             num_chunks |-> <<3>>, rows |-> <<1500>>]
      [] d = "chunkedNoCount" ->
            [present |-> TRUE, base_download_url |-> "https://s3.example.com/chunks/",
             chunk_file_names |-> <<"chunk0.json">>, isArray |-> TRUE,
             num_chunks |-> <<>>, rows |-> <<>>]
      [] OTHER -> NoChunkInfo

\* extractChunkMetadata(data); chunkRows is <<>> where it is undefined.
extractChunkMetadata(d) ==
    IF truthyData(d) /\ isObject(d) /\ chunkInfoOf(d).present
    THEN [chunkCount |-> IF chunkInfoOf(d).num_chunks # <<>>
                         THEN chunkInfoOf(d).num_chunks[1] ELSE 0,
          chunkRows |-> chunkInfoOf(d).rows]
    ELSE [chunkCount |-> 0, chunkRows |-> <<>>]

\* No error thrown.
NoMessage == <<>>

\* chunk_file_names?.length || 0
namesLength(info) == IF info.isArray THEN Len(info.chunk_file_names) ELSE 0

\* Lines 316-333: the message of the error getChunk(data, chunkIndex) throws
\* before its fetch, NoMessage when it goes on to fetchExternal.  A payload
\* that is falsy or has no truthy chunk_info has a chunk info that is not
\* present.
getChunkError(info, chunkIndex) ==
    IF ~info.present
    THEN <<"Response does not contain chunk_info">>
    ELSE IF \/ ~Truthy(info.base_download_url)
            \/ ~info.isArray
            \/ chunkIndex < 0
            \/ chunkIndex >= Len(info.chunk_file_names)
    THEN <<"Invalid chunk index: ", chunkIndex, " (Total chunks: ", namesLength(info), ")">>
    ELSE NoMessage

\* No metadata: nothing measured, nothing returned.
NoMeta ==
    [initialSize |-> 0, initialDuration |-> 0, externalSize |-> 0,
     externalDuration |-> 0, sizeBytes |-> 0, fetchTimeMs |-> 0,
     chunkCount |-> 0, chunkRows |-> <<>>]

\* No getData result.
NoDataResult == [kind |-> "none", status |-> 0, data |-> NULL, s3LinkFollowed |-> NULL]

\* No getData called yet.
NoGetData == [pc |-> "idle", ext |-> NoExternal, nExt |-> 0, result |-> NoDataResult]

\* What getData ends with when requestInternal or fetchExternal throws.
Thrown(e) == [kind |-> e.kind, status |-> e.status, data |-> e.data, s3LinkFollowed |-> NULL]

\* Lines 266-276 and 282-292: the DataResult getData returns.
DataResult(d, followed) ==
    [kind |-> "data", status |-> 200, data |-> d,
     s3LinkFollowed |-> IF followed THEN "true" ELSE "false"]

\* client.getData(endpoint), up to the first await of requestInternal.
GetDataStart(endpoint) ==
    /\ gd.pc \in {"idle", "done", "returned"}
    /\ RequestStart(Caller, endpoint)
    /\ gd' = [pc |-> "pipeline", ext |-> NoExternal, nExt |-> 0, result |-> NoDataResult]
    /\ meta' = NoMeta
    /\ UNCHANGED fileProxyUrl

\* Lines 246-262 and 280-292: requestInternal has settled; getData rethrows
\* its error, returns its payload, or calls fetchExternal, which sends its
\* request.  cl is the content-length header of the response requestInternal
\* returned the payload of and dur the duration it measured.
GetDataResume ==
    /\ gd.pc = "pipeline"
    /\ pc[Caller] = "done"
    /\ LET r == result[Caller] IN
        IF r.kind # "data"
        THEN /\ gd' = [gd EXCEPT !.pc = "done", !.result = Thrown(r)]
             /\ UNCHANGED meta
        ELSE \E cl \in ContentLengths, dur \in Durations :
             LET initialSize == calculateSize(cl, r.data) IN
             IF followsLink(r.data)
             THEN /\ gd' = [gd EXCEPT !.pc = "external",
                                      !.ext = externalRequest(linkOf(r.data),
                                                              fileProxyUrl, tokenStore),
                                      !.nExt = @ + 1]
                  /\ meta' = [meta EXCEPT !.initialSize = initialSize,
                                          !.initialDuration = dur]
             ELSE /\ gd' = [gd EXCEPT !.pc = "done",
                                      !.result = DataResult(r.data, FALSE)]
                  /\ meta' = [meta EXCEPT
                                !.initialSize = initialSize,
                                !.initialDuration = dur,
                                !.sizeBytes = initialSize,
                                !.fetchTimeMs = dur,
                                !.chunkCount = extractChunkMetadata(r.data).chunkCount,
                                !.chunkRows = extractChunkMetadata(r.data).chunkRows]
    /\ UNCHANGED <<authVars, pc, url, req, tokenReq, response, received, refreshed,
                   granted, nData, nPosts, result, fileProxyUrl>>

\* The payload of the followed link is searched for a link in its turn.
ExternalResponseFollows(r) ==
    /\ gd.pc = "external"
    /\ IF r.kind = "http" /\ ok(r) /\ followsLink(r.body)
       THEN gd' = [gd EXCEPT !.ext = externalRequest(linkOf(r.body), fileProxyUrl,
                                                    tokenStore),
                             !.nExt = IF @ < 3 THEN @ + 1 ELSE @]
       ELSE gd' = [gd EXCEPT !.pc = "done",
                             !.result = IF r.kind = "fault" THEN Thrown(Rejected)
                                        ELSE IF ~ok(r) THEN Thrown(handleErrorResponse(r))
                                        ELSE DataResult(r.body, TRUE)]
    /\ UNCHANGED <<authVars, pc, url, req, tokenReq, response, received, refreshed,
                   granted, nData, nPosts, result, fileProxyUrl, meta>>

\* Lines 225-233 and 264-276: the fetch of the link is answered.  cl is the
\* content-length header of the answer and dur the duration fetchExternal
\* measured.
ExternalResponse(r) ==
    /\ gd.pc = "external"
    /\ gd' = [gd EXCEPT !.pc = "done",
                        !.result = IF r.kind = "fault" THEN Thrown(Rejected)
                                   ELSE IF ~ok(r) THEN Thrown(handleErrorResponse(r))
                                   ELSE DataResult(r.body, TRUE)]
    /\ IF r.kind = "http" /\ ok(r)
       THEN \E cl \in ContentLengths, dur \in Durations :
            LET externalSize == calculateSize(cl, r.body) IN
            meta' = [meta EXCEPT
                        !.externalSize = externalSize,
                        !.externalDuration = dur,
                        !.sizeBytes = externalSize,
                        !.fetchTimeMs = meta.initialDuration + dur,
                        !.chunkCount = extractChunkMetadata(r.body).chunkCount,
                        !.chunkRows = extractChunkMetadata(r.body).chunkRows]
       ELSE UNCHANGED meta
    /\ UNCHANGED <<authVars, pc, url, req, tokenReq, response, received, refreshed,
                   granted, nData, nPosts, result, fileProxyUrl>>

\* request follows the link of the payload as getData does.
RequestResumeFollows ==
    /\ gd.pc = "request"
    /\ pc[Caller] = "done"
    /\ LET r == result[Caller] IN
        IF r.kind # "data"
        THEN gd' = [gd EXCEPT !.pc = "returned", !.result = Thrown(r)]
        ELSE IF followsLink(r.data)
        THEN gd' = [gd EXCEPT !.pc = "external",
                              !.ext = externalRequest(linkOf(r.data), fileProxyUrl,
                                                      tokenStore),
                              !.nExt = @ + 1]
        ELSE gd' = [gd EXCEPT !.pc = "returned",
                              !.result = [kind |-> "data", status |-> r.status,
                                          data |-> r.data, s3LinkFollowed |-> NULL]]
    /\ UNCHANGED <<authVars, pc, url, req, tokenReq, response, received, refreshed,
                   granted, nData, nPosts, result, fileProxyUrl, meta>>

\* client.request(endpoint), up to the first await of requestInternal.
RequestCall(endpoint) ==
    /\ gd.pc \in {"idle", "done", "returned"}
    /\ RequestStart(Caller, endpoint)
    /\ gd' = [pc |-> "request", ext |-> NoExternal, nExt |-> 0, result |-> NoDataResult]
    /\ meta' = NoMeta
    /\ UNCHANGED fileProxyUrl

\* Lines 190-191: requestInternal has settled; request rethrows its error or
\* returns its payload.
RequestResume ==
    /\ gd.pc = "request"
    /\ pc[Caller] = "done"
    /\ LET r == result[Caller] IN
        gd' = [gd EXCEPT !.pc = "returned",
                         !.result = IF r.kind # "data" THEN Thrown(r)
                                    ELSE [kind |-> "data", status |-> r.status,
                                          data |-> r.data, s3LinkFollowed |-> NULL]]
    /\ UNCHANGED <<authVars, pc, url, req, tokenReq, response, received, refreshed,
                   granted, nData, nPosts, result, fileProxyUrl, meta>>

(* ------------------------------------------------------------------ *)
(* IRacingClient.getChunk and getChunks                                *)
(* ------------------------------------------------------------------ *)

\* The largest number of chunk file names of a chunk_info.
MaxChunks == 3

\* chunk_info.base_download_url
chunkBase == "https://s3.example.com/chunks/"

\* chunk_info.chunk_file_names[i]
chunkFileName(i) == "chunk" \o ToString(i) \o ".json"

\* chunk_info.chunk_file_names with n names.
chunkFileNames(n) == [k \in 1 .. n |-> chunkFileName(k - 1)]

\* The chunk_info of the payloads handed to getChunk and getChunks: none, one
\* with up to MaxChunks file names with or without a base_download_url, and
\* one without chunk_file_names.
ChunkInfos ==
    {NoChunkInfo}
    \cup {[present |-> TRUE, base_download_url |-> b,
           chunk_file_names |-> chunkFileNames(n), isArray |-> TRUE,
           num_chunks |-> <<n>>, rows |-> <<>>] :
            b \in {NULL, chunkBase}, n \in 0 .. MaxChunks}
    \cup {[present |-> TRUE, base_download_url |-> chunkBase,
           chunk_file_names |-> <<>>, isArray |-> FALSE,
           num_chunks |-> <<>>, rows |-> <<>>]}

\* An option that is omitted is <<>>, one that is given is <<n>>.
Omitted == <<>>

\* The options of getChunks: start and limit, each given or omitted.
ChunkOptions ==
    [start : {Omitted} \cup {<<n>> : n \in -1 .. MaxChunks},
     limit : {Omitted} \cup {<<n>> : n \in 0 .. MaxChunks + 1}]

\* The body the file host serves for chunk file i.
chunkBody(i) == "rows" \o ToString(i)

\* The array a chunk body parses to: chunk file i holds one or two records.
rowsOf(body) ==
    LET i == CHOOSE j \in 0 .. MaxChunks : body = chunkBody(j)
    IN [k \in 1 .. ((i % 2) + 1) |-> <<"record", i, k>>]

\* What the file host may answer the fetch of chunk file i with: 200 with its
\* body, a non-2xx status, or no response at all.
ChunkResponses(i) ==
    {[kind |-> "http", status |-> 200, statusText |-> "OK", body |-> chunkBody(i)],
     [kind |-> "http", status |-> 401, statusText |-> "Unauthorized", body |-> NULL],
     [kind |-> "http", status |-> 403, statusText |-> "Forbidden", body |-> NULL],
     [kind |-> "fault", status |-> 0, statusText |-> NULL, body |-> NULL]}

\* Line 335: `${base_download_url}${chunk_file_names[chunkIndex]}`
chunkUrl(info, chunkIndex) ==
    info.base_download_url \o info.chunk_file_names[chunkIndex + 1]

\* The chunk file is fetched with the Authorization header of the session.
chunkRequestWithAuth(info, chunkIndex, proxy) ==
    [index |-> chunkIndex, url |-> fetchUrl(chunkUrl(info, chunkIndex), proxy),
     headers |-> getAuthHeaders(tokenStore)]

\* Lines 335-341: the request getChunk's fetchExternal sends for a chunk.
chunkRequest(info, chunkIndex, proxy) ==
    [index |-> chunkIndex, url |-> fetchUrl(chunkUrl(info, chunkIndex), proxy),
     headers |-> {}]

\* No result of getChunk or getChunks.
NoChunkResult ==
    [kind |-> "none", message |-> NoMessage, status |-> 0, data |-> <<>>,
     sizeBytes |-> 0, fetchTimeMs |-> 0]

\* throw new Error(message)
ChunkError(message) ==
    [kind |-> "Error", message |-> message, status |-> 0, data |-> <<>>,
     sizeBytes |-> 0, fetchTimeMs |-> 0]

\* totalChunks = chunkInfo.chunk_file_names.length throws on a chunk_info
\* without chunk_file_names.
ChunkTypeError ==
    [kind |-> "TypeError", message |-> NoMessage, status |-> 0, data |-> <<>>,
     sizeBytes |-> 0, fetchTimeMs |-> 0]

\* What a call ends with when fetchExternal throws: the typed API error of a
\* non-2xx response, or the rejection of fetch.
ChunkThrown(r) ==
    [kind |-> IF r.kind = "fault" THEN Rejected.kind ELSE handleErrorResponse(r).kind,
     message |-> NoMessage, status |-> r.status, data |-> <<>>,
     sizeBytes |-> 0, fetchTimeMs |-> 0]

\* Lines 342-349: the ChunkResult getChunk returns.
ChunkResult(data, sizeBytes, duration) ==
    [kind |-> "data", message |-> NoMessage, status |-> 200, data |-> data,
     sizeBytes |-> sizeBytes, fetchTimeMs |-> duration]

\* No getChunk or getChunks called yet.
NoChunks ==
    [pc |-> "idle", op |-> NULL, info |-> NoChunkInfo, index |-> Omitted,
     options |-> [start |-> Omitted, limit |-> Omitted],
     range |-> <<>>, reqs |-> <<>>, pending |-> {},
     got |-> {}, arrived |-> <<>>, result |-> NoChunkResult]

\* A call of getChunk(data, chunkIndex) that has sent nothing yet.
ChunkCall(info, chunkIndex) ==
    [NoChunks EXCEPT !.op = "getChunk", !.info = info, !.index = <<chunkIndex>>]

\* A call of getChunks(data, options) that has sent nothing yet.
ChunksCall(info, options) ==
    [NoChunks EXCEPT !.op = "getChunks", !.info = info, !.options = options]

\* Line 370: options.start || 0
optStart(options) ==
    IF options.start = Omitted \/ options.start[1] = 0 THEN 0 ELSE options.start[1]

\* Line 371: options.limit || totalChunks - start
optLimit(options, totalChunks) ==
    IF options.limit = Omitted \/ options.limit[1] = 0
    THEN totalChunks - optStart(options)
    ELSE options.limit[1]

\* Math.min(a, b)
min(a, b) == IF a <= b THEN a ELSE b

\* Line 372: Math.min(start + limit, totalChunks)
optEnd(options, totalChunks) ==
    min(optStart(options) + optLimit(options, totalChunks), totalChunks)

\* Lines 378-381: the indices getChunks calls getChunk for, in loop order.
chunkRange(options, totalChunks) ==
    LET start == optStart(options)
        end == optEnd(options, totalChunks)
    IN IF end > start THEN [k \in 1 .. (end - start) |-> start + k - 1] ELSE <<>>

\* The results listed in the order in which the fetches were answered.
promiseAllByArrival(range, arrived, got) ==
    [k \in 1 .. Len(arrived) |-> CHOOSE g \in got : g.index = arrived[k]]

\* Line 383: Promise.all(chunkPromises) resolves to the results in the order
\* of the promises, whatever the order they were fulfilled in.
promiseAll(range, arrived, got) ==
    [k \in 1 .. Len(range) |-> CHOOSE g \in got : g.index = range[k]]

\* Array.prototype.flatMap((r) => r.data) over results whose data are arrays.
RECURSIVE flatMapData(_)
flatMapData(results) ==
    IF results = <<>> THEN <<>>
    ELSE Head(results).data \o flatMapData(Tail(results))

\* results.reduce((sum, r) => sum + r.metadata.sizeBytes, 0)
RECURSIVE sumSize(_)
sumSize(results) ==
    IF results = <<>> THEN 0 ELSE Head(results).sizeBytes + sumSize(Tail(results))

\* results.reduce((sum, r) => sum + r.metadata.fetchTimeMs, 0)
RECURSIVE sumTime(_)
sumTime(results) ==
    IF results = <<>> THEN 0 ELSE Head(results).fetchTimeMs + sumTime(Tail(results))

\* Lines 383-394: what getChunks returns once every chunk promise is fulfilled.
mergedResult(range, arrived, got) ==
    LET results == promiseAll(range, arrived, got)
    IN [kind |-> "data", message |-> NoMessage, status |-> 200,
        data |-> flatMapData(results),
        sizeBytes |-> sumSize(results), fetchTimeMs |-> sumTime(results)]

\* getChunk fetches the chunk without validating the payload or the index.
GetChunkNoValidation(info, chunkIndex) ==
    /\ ck.pc \in {"idle", "done"}
    /\ ck' = [ChunkCall(info, chunkIndex) EXCEPT
                 !.pc = "waiting", !.range = <<chunkIndex>>,
                 !.reqs = <<[index |-> chunkIndex, url |-> <<"undefined">>,
                             headers |-> {}]>>,
                 !.pending = {chunkIndex}]

\* client.getChunk(data, chunkIndex), up to the await of fetch.
GetChunk(info, chunkIndex) ==
    /\ ck.pc \in {"idle", "done"}
    /\ IF getChunkError(info, chunkIndex) # NoMessage
       THEN ck' = [ChunkCall(info, chunkIndex) EXCEPT
                      !.pc = "done",
                      !.result = ChunkError(getChunkError(info, chunkIndex))]
       ELSE ck' = [ChunkCall(info, chunkIndex) EXCEPT
                      !.pc = "waiting", !.range = <<chunkIndex>>,
                      !.reqs = <<chunkRequest(info, chunkIndex, fileProxyUrl)>>,
                      !.pending = {chunkIndex}]

\* getChunks awaits each getChunk before it calls the next: only the fetch of
\* the first index is sent before the await.
GetChunksOneAtATime(info, options) ==
    /\ ck.pc \in {"idle", "done"}
    /\ LET range == IF info.present /\ info.isArray /\ optStart(options) >= 0
                    THEN chunkRange(options, Len(info.chunk_file_names))
                    ELSE <<>>
       IN IF range = <<>> \/ getChunkError(info, range[1]) # NoMessage
          THEN ck' = [ChunksCall(info, options) EXCEPT
                         !.pc = "done", !.result = mergedResult(<<>>, <<>>, {})]
          ELSE ck' = [ChunksCall(info, options) EXCEPT
                         !.pc = "waiting", !.range = <<range[1]>>,
                         !.reqs = <<chunkRequest(info, range[1], fileProxyUrl)>>,
                         !.pending = {range[1]}]

\* client.getChunks(data, options), up to the await of Promise.all: every
\* getChunk of the loop runs up to its own await of fetch.  A getChunk that
\* throws rejects its promise without a fetch, and Promise.all rejects with the
\* first rejection.
GetChunks(info, options) ==
    /\ ck.pc \in {"idle", "done"}
    /\ IF ~info.present
       THEN ck' = [ChunksCall(info, options) EXCEPT
                      !.pc = "done",
                      !.result = ChunkError(<<"Response does not contain chunk_info">>)]
       ELSE IF ~info.isArray
       THEN ck' = [ChunksCall(info, options) EXCEPT
                      !.pc = "done", !.result = ChunkTypeError]
       ELSE LET totalChunks == Len(info.chunk_file_names)
                start == optStart(options)
                range == chunkRange(options, totalChunks)
                passed == SelectSeq(range, LAMBDA i : getChunkError(info, i) = NoMessage)
            IN IF start < 0 \/ start >= totalChunks
               THEN ck' = [ChunksCall(info, options) EXCEPT
                              !.pc = "done",
                              !.result = ChunkError(<<"Invalid start index: ", start,
                                                      " (Total chunks: ", totalChunks,
                                                      ")">>)]
               ELSE IF passed # range
               THEN LET failed == CHOOSE k \in 1 .. Len(range) :
                                    /\ getChunkError(info, range[k]) # NoMessage
                                    /\ \A j \in 1 .. (k - 1) :
                                          getChunkError(info, range[j]) = NoMessage
                    IN ck' = [ChunksCall(info, options) EXCEPT
                                 !.pc = "done", !.range = range,
                                 !.reqs = [k \in 1 .. Len(passed) |->
                                              chunkRequest(info, passed[k], fileProxyUrl)],
                                 !.pending = {passed[k] : k \in 1 .. Len(passed)},
                                 !.result = ChunkError(getChunkError(info, range[failed]))]
               ELSE IF range = <<>>
               THEN ck' = [ChunksCall(info, options) EXCEPT
                              !.pc = "done", !.result = mergedResult(<<>>, <<>>, {})]
               ELSE ck' = [ChunksCall(info, options) EXCEPT
                              !.pc = "waiting", !.range = range,
                              !.reqs = [k \in 1 .. Len(range) |->
                                           chunkRequest(info, range[k], fileProxyUrl)],
                              !.pending = {range[k] : k \in 1 .. Len(range)}]

\* A failed fetch ends the call with the rows of the chunks fetched so far.
ChunkResponseKeepsPartial(i, r) ==
    /\ ck.pc = "waiting"
    /\ i \in ck.pending
    /\ IF ~ok(r)
       THEN ck' = [ck EXCEPT
                      !.pc = "done", !.pending = @ \ {i},
                      !.arrived = Append(@, i),
                      !.result = mergedResult(
                                     SelectSeq(ck.range,
                                               LAMBDA j : \E g \in ck.got : g.index = j),
                                     ck.arrived, ck.got)]
       ELSE \E cl \in ContentLengths, dur \in Durations :
            LET g == [index |-> i, data |-> rowsOf(r.body),
                      sizeBytes |-> calculateSize(cl, r.body), fetchTimeMs |-> dur]
                got == ck.got \cup {g}
                arrived == Append(ck.arrived, i)
            IN IF ck.pending # {i}
               THEN ck' = [ck EXCEPT !.pending = @ \ {i}, !.got = got,
                                     !.arrived = arrived]
               ELSE ck' = [ck EXCEPT
                              !.pc = "done", !.pending = {}, !.got = got,
                              !.arrived = arrived,
                              !.result = IF ck.op = "getChunk"
                                         THEN ChunkResult(g.data, g.sizeBytes,
                                                          g.fetchTimeMs)
                                         ELSE mergedResult(ck.range, arrived, got)]

\* Lines 225-233, 342-349 and 383-394: the fetch of chunk i is answered.  A
\* failed fetch rejects the call; the last answer of a getChunks call
\* fulfils Promise.all, and the results are merged.  cl is the content-length
\* header of the answer and dur the duration fetchExternal measured.
ChunkResponse(i, r) ==
    /\ ck.pc = "waiting"
    /\ i \in ck.pending
    /\ IF ~ok(r)
       THEN ck' = [ck EXCEPT !.pc = "done", !.pending = @ \ {i},
                             !.arrived = Append(@, i), !.result = ChunkThrown(r)]
       ELSE \E cl \in ContentLengths, dur \in Durations :
            LET g == [index |-> i, data |-> rowsOf(r.body),
                      sizeBytes |-> calculateSize(cl, r.body), fetchTimeMs |-> dur]
                got == ck.got \cup {g}
                arrived == Append(ck.arrived, i)
            IN IF ck.pending # {i}
               THEN ck' = [ck EXCEPT !.pending = @ \ {i}, !.got = got,
                                     !.arrived = arrived]
               ELSE ck' = [ck EXCEPT
                              !.pc = "done", !.pending = {}, !.got = got,
                              !.arrived = arrived,
                              !.result = IF ck.op = "getChunk"
                                         THEN ChunkResult(g.data, g.sizeBytes,
                                                          g.fetchTimeMs)
                                         ELSE mergedResult(ck.range, arrived, got)]

(* ------------------------------------------------------------------ *)
(* IRacingClient.processResponse and the request URL                   *)
(* ------------------------------------------------------------------ *)

\* The values of a content-type header, each the sequence of the parts it is
\* written with; the empty string is the empty sequence.
ContentTypes ==
    {<<>>,
     <<"application/json">>,
     <<"application/json", "; charset=utf-8">>,
     <<"Application/JSON">>,
     <<"application/octet-stream">>,
     <<"application/octet-stream", "; charset=utf-8">>,
     <<"APPLICATION/OCTET-STREAM", "; charset=UTF-8">>,
     <<"application/vnd.api+json">>,
     <<"text/csv">>,
     <<"text/plain">>,
     <<"text/plain", "; charset=utf-8">>}

\* response.headers.get('content-type'): null, or the value of the header.
NoHeader == [present |-> FALSE, value |-> <<>>]

HeaderValue(v) == [present |-> TRUE, value |-> v]

Headers == {NoHeader} \cup {HeaderValue(v) : v \in ContentTypes}

\* The bodies of a response: a JSON object, a JSON number, text that is not
\* JSON, and nothing.
Bodies == {"{\"success\":true}", "7", "a,b\n1,2", ""}

\* Whether JSON.parse accepts the body.
parsesAsJson(body) == body \in {"{\"success\":true}", "7"}

\* response.json() of a body JSON.parse accepts.
jsonOf(body) == [type |-> "json", of |-> body]

\* response.text()
textOf(body) == [type |-> "text", of |-> body]

\* String.prototype.toLowerCase of one part of a header value.
lowerPart(part) ==
    CASE part = "Application/JSON" -> "application/json"
      [] part = "APPLICATION/OCTET-STREAM" -> "application/octet-stream"
      [] part = "; charset=UTF-8" -> "; charset=utf-8"
      [] OTHER -> part

\* contentType.toLowerCase()
toLowerCase(v) == [k \in 1 .. Len(v) |-> lowerPart(v[k])]

\* lowerContentType.includes(type)
includesType(v, type) == \E k \in 1 .. Len(v) : v[k] = type

\* contentType.replace(/application\/octet-stream/i, 'application/json'): the
\* first match is replaced, in whatever case it is written.
replaceOctetStream(v) ==
    IF \E k \in 1 .. Len(v) : lowerPart(v[k]) = "application/octet-stream"
    THEN LET first == CHOOSE k \in 1 .. Len(v) :
                        /\ lowerPart(v[k]) = "application/octet-stream"
                        /\ \A j \in 1 .. (k - 1) :
                              lowerPart(v[j]) # "application/octet-stream"
         IN [v EXCEPT ![first] = "application/json"]
    ELSE v

\* Nothing processed.
NoProcessed == [kind |-> "none", data |-> [type |-> "none", of |-> ""],
                contentType |-> NoHeader]

\* What processResponse returns.
Processed(data, contentType) ==
    [kind |-> "returned", data |-> data, contentType |-> contentType]

\* response.json() throws on a body that JSON.parse rejects.
SyntaxError == [kind |-> "SyntaxError", data |-> [type |-> "none", of |-> ""],
                contentType |-> NoHeader]

\* processResponse(response), lines 89-122.  if (contentType) is false for
\* null and for the empty string.
processResponse(header, body) ==
    IF header.present /\ header.value # <<>>
    THEN LET lowerContentType == toLowerCase(header.value) IN
         IF \/ includesType(lowerContentType, "application/json")
            \/ includesType(lowerContentType, "application/octet-stream")
         THEN IF ~parsesAsJson(body) THEN SyntaxError
              ELSE Processed(jsonOf(body),
                             IF includesType(lowerContentType, "application/octet-stream")
                             THEN HeaderValue(replaceOctetStream(header.value))
                             ELSE header)
         ELSE Processed(textOf(body), header)
    ELSE IF parsesAsJson(body)
         THEN Processed(jsonOf(body), HeaderValue(<<"application/json">>))
         ELSE Processed(textOf(body), HeaderValue(<<"text/plain">>))

\* processResponse not called.
NoProcess == [header |-> NoHeader, body |-> "", out |-> NoProcessed]

\* processResponse is applied to the response.
ProcessResponse ==
    /\ pr.out.kind = "none"
    /\ pr' = [pr EXCEPT !.out = processResponse(pr.header, pr.body)]
    /\ UNCHANGED ur

\* The most slashes a base URL ends with or a path begins with.
MaxSlashes == 2

\* n slashes.
slashes(n) == [k \in 1 .. n |-> "/"]

\* this.apiUrl: a base followed by trailing slashes.  A URL is the sequence of
\* its slashes and of the segments between them.
ApiUrls == {<<"https:", "/", "/", "members-ng.iracing.com", "/", "data">> \o slashes(n) :
               n \in 0 .. MaxSlashes}

\* The endpoint: leading slashes followed by a path.
EndpointPaths ==
    {slashes(n) \o path : n \in 0 .. MaxSlashes,
                          path \in {<<"member", "/", "info">>, <<"series">>}}

\* String.prototype.endsWith('/')
endsWithSlash(s) == s # <<>> /\ s[Len(s)] = "/"

\* String.prototype.startsWith('/')
startsWithSlash(s) == s # <<>> /\ s[1] = "/"

\* Line 133: endpoint.startsWith('/') ? endpoint.substring(1) : endpoint
cleanEndpoint(endpoint) == IF startsWithSlash(endpoint) THEN Tail(endpoint) ELSE endpoint

\* Line 134: this.apiUrl.endsWith('/') ? this.apiUrl : `${this.apiUrl}/`
cleanApiUrl(apiUrl) == IF endsWithSlash(apiUrl) THEN apiUrl ELSE apiUrl \o <<"/">>

\* Line 135: `${cleanApiUrl}${cleanEndpoint}`
requestUrl(apiUrl, endpoint) == cleanApiUrl(apiUrl) \o cleanEndpoint(endpoint)

\* No URL built.
NoUrl == [apiUrl |-> <<>>, endpoint |-> <<>>, url |-> <<>>]

\* requestInternal builds the URL of the request.
BuildUrl ==
    /\ ur.url = <<>>
    /\ ur' = [ur EXCEPT !.url = requestUrl(ur.apiUrl, ur.endpoint)]
    /\ UNCHANGED pr

(* ------------------------------------------------------------------ *)
(* PKCEHelper.generateVerifier                                         *)
(* ------------------------------------------------------------------ *)

\* The length generateVerifier is called with.
VerifierLength == 1

\* The values of an element of a Uint8Array.
Bytes == 0 .. 255

\* Line 7: charset
charset ==
    <<"A", "B", "C", "D", "E", "F", "G", "H", "I", "J", "K", "L", "M",
      "N", "O", "P", "Q", "R", "S", "T", "U", "V", "W", "X", "Y", "Z",
      "a", "b", "c", "d", "e", "f", "g", "h", "i", "j", "k", "l", "m",
      "n", "o", "p", "q", "r", "s", "t", "u", "v", "w", "x", "y", "z",
      "0", "1", "2", "3", "4", "5", "6", "7", "8", "9", "-", ".", "_", "~">>

\* Line 13: charset[values[i] % charset.length]
charOfByte(value) == charset[(value % Len(charset)) + 1]

\* Line 18: charset.charAt(Math.floor(Math.random() * charset.length)), with
\* Math.random() returning value / 256.
charOfRandom(value) == charset[((value * Len(charset)) \div 256) + 1]

\* generateVerifier not called: the values it will draw and no result.
NoVerifier == [hasCrypto |-> TRUE, values |-> <<>>, result |-> <<>>]

\* PKCEHelper.generateVerifier(length), lines 6-22.
GenerateVerifier ==
    /\ gv.values # <<>>
    /\ gv.result = <<>>
    /\ gv' = [gv EXCEPT !.result = [i \in 1 .. Len(gv.values) |->
                                      IF gv.hasCrypto THEN charOfByte(gv.values[i])
                                      ELSE charOfRandom(gv.values[i])]]

(* ------------------------------------------------------------------ *)
(* Specifications                                                      *)
(* ------------------------------------------------------------------ *)

IdleProcs ==
    /\ pc = [p \in Procs |-> "idle"]
    /\ url = [p \in Procs |-> NULL]
    /\ req = [p \in Procs |-> NoRequest]
    /\ tokenReq = [p \in Procs |-> NoPost]
    /\ response = [p \in Procs |-> NoResponse]
    /\ received = [p \in Procs |-> NoResponse]
    /\ refreshed = [p \in Procs |-> NULL]
    /\ granted = [p \in Procs |-> NULL]
    /\ nData = [p \in Procs |-> 0]
    /\ nPosts = [p \in Procs |-> 0]
    /\ result = [p \in Procs |-> NoResult]
    /\ fileProxyUrl = NULL
    /\ gd = NoGetData
    /\ meta = NoMeta
    /\ ck = NoChunks
    /\ pr = NoProcess
    /\ ur = NoUrl
    /\ gv = NoVerifier
    /\ cb = NoCallbacks

\* No OAuth flow started, in a context without a window.
IdleOAuth ==
    /\ hasWindow = FALSE
    /\ redirectUri = "http://localhost/callback"
    /\ location = NULL
    /\ sessionVerifier = NULL
    /\ pkceVerifier = NULL
    /\ genVerifier = NULL
    /\ cbReq = NoExchange
    /\ cbError = NoError
    /\ ha = NoAuthentication

\* The AuthManager after construction, its operations called directly.
Init ==
    /\ tokenStore = EmptyStore
    /\ clientId \in {"", "test_client"}
    /\ authReq = NoPost
    /\ lastOp = Op("constructor", NULL, NULL, NULL, NULL)
    /\ IdleProcs
    /\ IdleOAuth

Next ==
    /\ \/ \E a \in AccessTokens \cup {""}, r \in RefreshTokens \cup {NULL, ""} : SetSession(a, r)
       \/ Logout
       \/ RefreshAccessToken
       \/ \E t \in TokenResponses : RefreshAccessTokenResponse(t)
    /\ UNCHANGED oauthVars

Spec == Init /\ [][Next]_vars

\* Concurrent request / getData invocations on one client whose session was
\* restored from the durable token store or by setSession.
FetchInit ==
    /\ tokenStore \in [accessToken : AccessTokens \cup {NULL},
                       refreshToken : RefreshTokens \cup {NULL}]
    /\ clientId \in {"", "test_client"}
    /\ authReq = NoPost
    /\ lastOp = Op("constructor", NULL, NULL, NULL, NULL)
    /\ IdleProcs
    /\ IdleOAuth

FetchNext ==
    /\ \E p \in Procs :
        \/ \E e \in Endpoints : RequestStart(p, e)
        \/ \E r \in DataResponses : FirstResponse(p, r)
        \/ \E t \in TokenResponses : RefreshResponse(p, t)
        \/ RetrySend(p)
        \/ \E r \in DataResponses : RetryResponse(p, r)
    /\ UNCHANGED <<oauthVars, fileProxyUrl, gd, meta, ck, pr, ur, gv, cb>>

FetchSpec == FetchInit /\ [][FetchNext]_vars

\* One caller driving the whole AuthManager, in a browser or without a window,
\* awaiting each operation before calling the next.
OAuthInit ==
    /\ tokenStore = EmptyStore
    /\ clientId \in {"", "test_client"}
    /\ authReq = NoPost
    /\ lastOp = Op("constructor", NULL, NULL, NULL, NULL)
    /\ IdleProcs
    /\ hasWindow \in BOOLEAN
    /\ redirectUri \in {"", "http://localhost/callback"}
    /\ location \in IF hasWindow THEN Locations ELSE {NULL}
    /\ sessionVerifier = NULL
    /\ pkceVerifier = NULL
    /\ genVerifier = NULL
    /\ cbReq = NoExchange
    /\ cbError = NoError
    /\ ha = NoAuthentication

OAuthNext ==
    \/ /\ Quiet
       /\ \/ /\ \E a \in AccessTokens \cup {""}, r \in RefreshTokens \cup {NULL, ""} :
                    SetSession(a, r)
             /\ UNCHANGED oauthVars
          \/ Logout /\ UNCHANGED oauthVars
          \/ RefreshAccessToken /\ UNCHANGED oauthVars
          \/ \E v \in Verifiers : GenerateAuthUrl(v)
          \/ \E i \in CallbackInputs : HandleCallback(i)
          \/ HandleAuthentication
    \/ /\ ha.pc = "idle"
       /\ \E t \in TokenResponses : RefreshAccessTokenResponse(t)
       /\ UNCHANGED oauthVars
    \/ GenerateAuthUrlResume
    \/ \E t \in ExchangeResponses : HandleCallbackResponse(t)
    \/ \E t \in ExchangeResponses : HandleAuthenticationCallbackResponse(t)
    \/ \E t \in TokenResponses : HandleAuthenticationRefreshResponse(t)

OAuthSpec == OAuthInit /\ [][OAuthNext]_vars

\* One getData call at a time on a client whose session was restored from the
\* durable token store or by setSession, with or without a file proxy.
DataInit ==
    /\ tokenStore \in [accessToken : AccessTokens \cup {NULL},
                       refreshToken : RefreshTokens \cup {NULL}]
    /\ clientId \in {"", "test_client"}
    /\ authReq = NoPost
    /\ lastOp = Op("constructor", NULL, NULL, NULL, NULL)
    /\ pc = [p \in Procs |-> "idle"]
    /\ url = [p \in Procs |-> NULL]
    /\ req = [p \in Procs |-> NoRequest]
    /\ tokenReq = [p \in Procs |-> NoPost]
    /\ response = [p \in Procs |-> NoResponse]
    /\ received = [p \in Procs |-> NoResponse]
    /\ refreshed = [p \in Procs |-> NULL]
    /\ granted = [p \in Procs |-> NULL]
    /\ nData = [p \in Procs |-> 0]
    /\ nPosts = [p \in Procs |-> 0]
    /\ result = [p \in Procs |-> NoResult]
    /\ fileProxyUrl \in {NULL, "https://proxy.example.com/file",
                         "https://proxy.example.com/file?mode=raw"}
    /\ gd = NoGetData
    /\ meta = NoMeta
    /\ ck = NoChunks
    /\ pr = NoProcess
    /\ ur = NoUrl
    /\ gv = NoVerifier
    /\ cb = NoCallbacks
    /\ IdleOAuth

DataNext ==
    /\ \/ \E e \in Endpoints : GetDataStart(e)
       \/ \E e \in Endpoints : RequestCall(e)
       \/ RequestResume
       \/ /\ \/ \E r \in LinkResponses : FirstResponse(Caller, r)
             \/ \E t \in TokenResponses : RefreshResponse(Caller, t)
             \/ RetrySend(Caller)
             \/ \E r \in LinkResponses : RetryResponse(Caller, r)
          /\ UNCHANGED <<fileProxyUrl, gd, meta>>
       \/ GetDataResume
       \/ \E r \in ExternalResponses : ExternalResponse(r)
    /\ UNCHANGED <<oauthVars, ck, pr, ur, gv, cb>>

DataSpec == DataInit /\ [][DataNext]_vars

\* getChunk and getChunks of a logged-in client, called on payloads with every
\* chunk_info, with and without a file proxy.
ChunkInit ==
    /\ tokenStore = [accessToken |-> "a1", refreshToken |-> "r1"]
    /\ clientId = "test_client"
    /\ authReq = NoPost
    /\ lastOp = Op("constructor", NULL, NULL, NULL, NULL)
    /\ pc = [p \in Procs |-> "idle"]
    /\ url = [p \in Procs |-> NULL]
    /\ req = [p \in Procs |-> NoRequest]
    /\ tokenReq = [p \in Procs |-> NoPost]
    /\ response = [p \in Procs |-> NoResponse]
    /\ received = [p \in Procs |-> NoResponse]
    /\ refreshed = [p \in Procs |-> NULL]
    /\ granted = [p \in Procs |-> NULL]
    /\ nData = [p \in Procs |-> 0]
    /\ nPosts = [p \in Procs |-> 0]
    /\ result = [p \in Procs |-> NoResult]
    /\ fileProxyUrl \in {NULL, "https://proxy.example.com/file"}
    /\ gd = NoGetData
    /\ meta = NoMeta
    /\ ck = NoChunks
    /\ pr = NoProcess
    /\ ur = NoUrl
    /\ gv = NoVerifier
    /\ cb = NoCallbacks
    /\ IdleOAuth

\* A behaviour follows one call from its start to its end: a call keeps
\* nothing of the call before it, so a later call goes as the first does.
ChunkNext ==
    /\ \/ ck.pc = "idle" /\ \E info \in ChunkInfos, i \in -1 .. MaxChunks : GetChunk(info, i)
       \/ /\ ck.pc = "idle"
          /\ \E info \in ChunkInfos, options \in ChunkOptions : GetChunks(info, options)
       \/ \E i \in 0 .. MaxChunks : \E r \in ChunkResponses(i) : ChunkResponse(i, r)
    /\ UNCHANGED <<authVars, oauthVars, pc, url, req, tokenReq, response, received,
                   refreshed, granted, nData, nPosts, result, fileProxyUrl, gd, meta,
                   pr, ur, gv, cb>>

ChunkSpec == ChunkInit /\ [][ChunkNext]_vars

\* processResponse applied to every header and body, and the request URL built
\* from every base URL and endpoint.
NormalInit ==
    /\ tokenStore = EmptyStore
    /\ clientId = "test_client"
    /\ authReq = NoPost
    /\ lastOp = Op("constructor", NULL, NULL, NULL, NULL)
    /\ pc = [p \in Procs |-> "idle"]
    /\ url = [p \in Procs |-> NULL]
    /\ req = [p \in Procs |-> NoRequest]
    /\ tokenReq = [p \in Procs |-> NoPost]
    /\ response = [p \in Procs |-> NoResponse]
    /\ received = [p \in Procs |-> NoResponse]
    /\ refreshed = [p \in Procs |-> NULL]
    /\ granted = [p \in Procs |-> NULL]
    /\ nData = [p \in Procs |-> 0]
    /\ nPosts = [p \in Procs |-> 0]
    /\ result = [p \in Procs |-> NoResult]
    /\ fileProxyUrl = NULL
    /\ gd = NoGetData
    /\ meta = NoMeta
    /\ ck = NoChunks
    /\ pr \in [header : Headers, body : Bodies, out : {NoProcessed}]
    /\ ur \in [apiUrl : ApiUrls, endpoint : EndpointPaths, url : {<<>>}]
    /\ gv = NoVerifier
    /\ cb = NoCallbacks
    /\ IdleOAuth

NormalNext ==
    /\ \/ ProcessResponse
       \/ BuildUrl
    /\ UNCHANGED <<authVars, oauthVars, pc, url, req, tokenReq, response, received,
                   refreshed, granted, nData, nPosts, result, fileProxyUrl, gd, meta, ck,
                   gv, cb>>

NormalSpec == NormalInit /\ [][NormalNext]_vars

\* generateVerifier with every random value, with and without
\* crypto.getRandomValues.
VerifierInit ==
    /\ tokenStore = EmptyStore
    /\ clientId = "test_client"
    /\ authReq = NoPost
    /\ lastOp = Op("constructor", NULL, NULL, NULL, NULL)
    /\ pc = [p \in Procs |-> "idle"]
    /\ url = [p \in Procs |-> NULL]
    /\ req = [p \in Procs |-> NoRequest]
    /\ tokenReq = [p \in Procs |-> NoPost]
    /\ response = [p \in Procs |-> NoResponse]
    /\ received = [p \in Procs |-> NoResponse]
    /\ refreshed = [p \in Procs |-> NULL]
    /\ granted = [p \in Procs |-> NULL]
    /\ nData = [p \in Procs |-> 0]
    /\ nPosts = [p \in Procs |-> 0]
    /\ result = [p \in Procs |-> NoResult]
    /\ fileProxyUrl = NULL
    /\ gd = NoGetData
    /\ meta = NoMeta
    /\ ck = NoChunks
    /\ pr = NoProcess
    /\ ur = NoUrl
    /\ gv \in [hasCrypto : BOOLEAN, values : [1 .. VerifierLength -> Bytes],
                result : {<<>>}]
    /\ cb = NoCallbacks
    /\ IdleOAuth

VerifierNext ==
    /\ GenerateVerifier
    /\ UNCHANGED <<authVars, oauthVars, pc, url, req, tokenReq, response, received,
                   refreshed, granted, nData, nPosts, result, fileProxyUrl, gd, meta, ck,
                   pr, ur, cb>>

VerifierSpec == VerifierInit /\ [][VerifierNext]_vars

\* The whole client: the AuthManager driven by one caller, concurrent requests,
\* getData and the chunk operations, each from a session restored from the
\* durable token store.  A behaviour stays within the area it enters first (an
\* area reads nothing another area writes but the session), and the chunk
\* operations start from the logged-in session without a file proxy, getChunks
\* called for one or two chunks.
LifecycleInit ==
    /\ tokenStore \in [accessToken : {"a1", NULL}, refreshToken : {"r1", NULL}]
    /\ clientId \in {"", "test_client"}
    /\ authReq = NoPost
    /\ lastOp = Op("constructor", NULL, NULL, NULL, NULL)
    /\ pc = [p \in Procs |-> "idle"]
    /\ url = [p \in Procs |-> NULL]
    /\ req = [p \in Procs |-> NoRequest]
    /\ tokenReq = [p \in Procs |-> NoPost]
    /\ response = [p \in Procs |-> NoResponse]
    /\ received = [p \in Procs |-> NoResponse]
    /\ refreshed = [p \in Procs |-> NULL]
    /\ granted = [p \in Procs |-> NULL]
    /\ nData = [p \in Procs |-> 0]
    /\ nPosts = [p \in Procs |-> 0]
    /\ result = [p \in Procs |-> NoResult]
    /\ fileProxyUrl \in {NULL, "https://proxy.example.com/file"}
    /\ gd = NoGetData
    /\ meta = NoMeta
    /\ ck = NoChunks
    /\ pr = NoProcess
    /\ ur = NoUrl
    /\ gv = NoVerifier
    /\ cb = NoCallbacks
    /\ hasWindow \in BOOLEAN
    /\ redirectUri = "http://localhost/callback"
    /\ location \in IF hasWindow THEN Locations ELSE {NULL}
    /\ sessionVerifier = NULL
    /\ pkceVerifier = NULL
    /\ genVerifier = NULL
    /\ cbReq = NoExchange
    /\ cbError = NoError
    /\ ha = NoAuthentication

\* The limits getChunks is called with in the behaviours of the whole client.
LifecycleLimits == {<<1>>, <<2>>}

\* No operation of the AuthManager was called directly.
AuthUntouched == lastOp.op = "constructor" /\ authReq = NoPost /\ IdleOAuth

\* No request was sent.
PipelineUntouched == \A p \in Procs : pc[p] = "idle" /\ nData[p] = 0

LifecycleNext ==
    \/ /\ PipelineUntouched /\ gd = NoGetData /\ ck = NoChunks /\ fileProxyUrl = NULL
       /\ OAuthNext
    \/ /\ AuthUntouched /\ gd = NoGetData /\ ck = NoChunks /\ fileProxyUrl = NULL
       /\ FetchNext
    \/ /\ AuthUntouched /\ ck = NoChunks
       /\ gd # NoGetData \/ PipelineUntouched
       /\ DataNext
    \/ /\ AuthUntouched /\ PipelineUntouched /\ gd = NoGetData /\ fileProxyUrl = NULL
       /\ tokenStore = [accessToken |-> "a1", refreshToken |-> "r1"]
       /\ clientId = "test_client"
       /\ ChunkNext
       /\ ck'.op = "getChunks" => ck'.options.limit \in LifecycleLimits

LifecycleSpec == LifecycleInit /\ [][LifecycleNext]_vars

\* Every fetch outside the data API: the link getData follows and the chunk
\* files of getChunk and getChunks, the latter on the logged-in client.
ExternalInit == DataInit

ExternalNext ==
    \/ /\ ck = NoChunks
       /\ DataNext
    \/ /\ gd = NoGetData /\ PipelineUntouched
       /\ tokenStore = [accessToken |-> "a1", refreshToken |-> "r1"]
       /\ clientId = "test_client"
       /\ fileProxyUrl \in {NULL, "https://proxy.example.com/file"}
       /\ ChunkNext

ExternalSpec == ExternalInit /\ [][ExternalNext]_vars

\* Concurrent request invocations, one per caller, whose data requests are all
\* answered before the token endpoint answers any refresh POST: the refreshes
\* they start are sent with the refresh token stored at the start.
RaceInit == FetchInit

RaceNext ==
    /\ \E p \in Procs :
        \/ pc[p] = "idle" /\ \E e \in Endpoints : RequestStart(p, e)
        \/ \E r \in DataResponses : FirstResponse(p, r)
        \/ /\ \A o \in Procs : pc[o] \notin {"idle", "first"}
           /\ \E t \in TokenResponses : RefreshResponse(p, t)
        \/ RetrySend(p)
        \/ \E r \in DataResponses : RetryResponse(p, r)
    /\ UNCHANGED <<oauthVars, fileProxyUrl, gd, meta, ck, pr, ur, gv, cb>>

RaceSpec == RaceInit /\ [][RaceNext]_vars

\* handleCallback invoked by several callers at once, before, while and after
\* one generateAuthUrl call stores its verifier, in a browser and without a
\* window.
CallbackInit ==
    /\ OAuthInit
    /\ clientId = "test_client"
    /\ redirectUri = "http://localhost/callback"

CallbackNext ==
    \/ /\ lastOp.op = "constructor"
       /\ \E v \in Verifiers : GenerateAuthUrl(v)
    \/ GenerateAuthUrlResume
    \/ \E p \in Procs : \E i \in CallbackInputs : ConcurrentHandleCallback(p, i)
    \/ \E p \in Procs : \E t \in ExchangeResponses : ConcurrentCallbackResponse(p, t)

CallbackSpec == CallbackInit /\ [][CallbackNext]_vars

\* One caller driving the AuthManager from the empty session, awaiting each
\* operation before calling the next, with non-empty token values: setSession
\* is given a non-empty access token and an omitted or non-empty refresh token,
\* and every 2xx token response contains an access token.  The refresh POST of
\* handleAuthentication is never sent in these behaviours (C40), so its answer
\* is no step of them.
SequentialInit == OAuthInit

SequentialNext ==
    \/ /\ Quiet
       /\ \/ /\ \E a \in AccessTokens, r \in RefreshTokens \cup {NULL} : SetSession(a, r)
             /\ UNCHANGED oauthVars
          \/ Logout /\ UNCHANGED oauthVars
          \/ RefreshAccessToken /\ UNCHANGED oauthVars
          \/ \E v \in Verifiers : GenerateAuthUrl(v)
          \/ \E i \in CallbackInputs : HandleCallback(i)
          \/ HandleAuthentication
    \/ /\ ha.pc = "idle"
       /\ \E t \in TokenResponses : RefreshAccessTokenResponse(t)
       /\ UNCHANGED oauthVars
    \/ GenerateAuthUrlResume
    \/ \E t \in ExchangeResponses : HandleCallbackResponse(t)
    \/ \E t \in ExchangeResponses : HandleAuthenticationCallbackResponse(t)

SequentialSpec == SequentialInit /\ [][SequentialNext]_vars

(* ------------------------------------------------------------------ *)
(* Claims                                                              *)
(* ------------------------------------------------------------------ *)

\* The headers a retry must carry after a refresh that was answered with
\* the access token a.
RetryHeaders(a) == {<<"Authorization", Bearer(a)>>, <<"Content-Type", "application/json">>}

\* C1: when the first response of an invocation is 401 and its
\* refreshAccessToken returns true, exactly one retry is sent, to the same URL
\* and with Authorization: Bearer <new access token>, and when the retry is
\* answered 2xx its payload is the result.  The new access token is read
\* here in the widest sense: a token that some refresh that returned true was
\* answered with, so a retry that carries the token of a concurrent
\* invocation's refresh still satisfies the formula.
C1_RetryCarriesNewToken ==
    \A p \in Procs :
        /\ (refreshed[p] = "true" /\ pc[p] \in {"retry", "done"}) => nData[p] = 2
        /\ pc[p] = "retry" =>
              \E q \in Procs :
                  /\ refreshed[q] = "true"
                  /\ req[p] = [url |-> url[p], headers |-> RetryHeaders(granted[q])]
        /\ (pc[p] = "done" /\ refreshed[p] = "true" /\ ok(received[p]) /\ nData[p] = 2) =>
              (result[p].kind = "data" /\ result[p].data = received[p].body)

\* C2: when the first response is 401 and the refresh fails (no refresh token,
\* a non-2xx answer, a transport fault, or the missing-clientId throw that
\* requestInternal catches), the invocation ends with the typed API error of
\* status 401 and has sent the data request once only.
C2_FailedRefreshRaises401 ==
    \A p \in Procs :
        (pc[p] = "done" /\ refreshed[p] \in {"false", "threw"}) =>
            /\ result[p].kind = "IRacingAPIError"
            /\ result[p].status = 401
            /\ nData[p] = 1

\* C2 witness: an invocation whose refresh POST was sent and failed.
C2_Witness ==
    \E p \in Procs :
        pc[p] = "done" /\ refreshed[p] = "false" /\ nPosts[p] = 1 /\ result[p].status = 401

\* C3: an invocation sends at most two data requests and at most one refresh
\* POST, and when the retry is answered non-2xx the typed API error carries
\* the status and statusText of that last response.
C3_AtMostOneRetry ==
    \A p \in Procs :
        /\ nData[p] <= 2
        /\ nPosts[p] <= 1
        /\ (pc[p] = "done" /\ nData[p] = 2 /\ ~ok(received[p])) =>
              /\ result[p].kind = "IRacingAPIError"
              /\ result[p].status = received[p].status
              /\ result[p].statusText = received[p].statusText

\* C3 witness: a retry that was answered with a non-2xx status other than 401.
C3_Witness ==
    \E p \in Procs :
        pc[p] = "done" /\ nData[p] = 2 /\ nPosts[p] = 1 /\ received[p].status = 500

\* C4: at most one refresh POST is in flight at any time.
C4_OneRefreshInFlight ==
    Cardinality({p \in Procs : tokenReq[p] # NoPost}) <= 1

\* C5: refreshAccessToken called while no refresh token is stored returns
\* false, sends nothing to the token endpoint and leaves the token store as it
\* was, whether or not clientId is configured.
C5_NoRefreshTokenNoCall ==
    [][(lastOp'.op = "refreshAccessToken" /\ authReq = NoPost
            /\ ~Truthy(getRefreshToken(tokenStore)))
        => (lastOp'.ret = "false" /\ authReq' = NoPost /\ tokenStore' = tokenStore)]_vars

\* C5 witness: the call returned false with no clientId configured, an access
\* token stored and no request in flight.
C5_Witness ==
    /\ lastOp.op = "refreshAccessToken" /\ lastOp.ret = "false"
    /\ clientId = "" /\ authReq = NoPost
    /\ getAccessToken(tokenStore) \in AccessTokens
    /\ getRefreshToken(tokenStore) = NULL

\* C6: after a non-2xx answer to the refresh POST both tokens read back as
\* absent and refreshAccessToken has returned false.
C6_Non2xxClearsSession ==
    (lastOp.op = "refreshResponse" /\ lastOp.kind = "bad") =>
        /\ getAccessToken(tokenStore) = NULL
        /\ getRefreshToken(tokenStore) = NULL
        /\ lastOp.ret = "false"

\* C6 witness: a refresh answered non-2xx.
C6_Witness ==
    lastOp.op = "refreshResponse" /\ lastOp.kind = "bad" /\ authReq = NoPost

\* C7: no step of a refreshAccessToken call that ends in a transport fault
\* changes the token store, and the call returns false.
C7_FaultPreservesSession ==
    [][/\ (lastOp'.op = "refreshAccessToken" /\ authReq = NoPost)
            => tokenStore' = tokenStore
       /\ (lastOp'.op = "refreshResponse" /\ lastOp'.kind = "fault" /\ authReq # NoPost)
            => (tokenStore' = tokenStore /\ lastOp'.ret = "false")]_vars

\* C7 witness: a refresh ended by a transport fault with both tokens still stored.
C7_Witness ==
    /\ lastOp.op = "refreshResponse" /\ lastOp.kind = "fault" /\ lastOp.ret = "false"
    /\ getAccessToken(tokenStore) \in AccessTokens
    /\ getRefreshToken(tokenStore) \in RefreshTokens

\* C8: on a 2xx answer refreshAccessToken returns true, the stored access token
\* is the returned one, and the stored refresh token is the returned one when
\* the answer has one and otherwise the one stored before.
C8_SuccessfulRefreshStores ==
    [][(lastOp'.op = "refreshResponse" /\ lastOp'.kind = "ok" /\ authReq # NoPost)
        => /\ lastOp'.ret = "true"
           /\ getAccessToken(tokenStore') = lastOp'.access
           /\ getRefreshToken(tokenStore') =
                 IF lastOp'.refresh # NULL THEN lastOp'.refresh
                 ELSE getRefreshToken(tokenStore)]_vars

\* C8 witness: a 2xx answer without a refresh token, the old one still stored.
C8_Witness ==
    /\ lastOp.op = "refreshResponse" /\ lastOp.kind = "ok" /\ lastOp.refresh = NULL
    /\ getAccessToken(tokenStore) = lastOp.access
    /\ getRefreshToken(tokenStore) \in RefreshTokens

\* C9: after setSession(access, refresh?) the accessors return the supplied
\* access token and the supplied refresh token, or absent when none was
\* supplied.
C9_SetSessionRoundTrip ==
    lastOp.op = "setSession" =>
        /\ getAccessToken(tokenStore) = lastOp.access
        /\ getRefreshToken(tokenStore) =
              IF Truthy(lastOp.refresh) THEN lastOp.refresh ELSE NULL

\* C10: after logout both tokens read back as absent, isLoggedIn is false and
\* getAuthHeaders returns the empty header map.
C10_LogoutClears ==
    lastOp.op = "logout" =>
        /\ getAccessToken(tokenStore) = NULL
        /\ getRefreshToken(tokenStore) = NULL
        /\ ~isLoggedIn(tokenStore)
        /\ getAuthHeaders(tokenStore) = {}

\* C10 witness: logout called while a refresh POST is in flight.
C10_Witness ==
    lastOp.op = "logout" /\ authReq # NoPost


\* The bearer tokens a header map carries.
BearerTokens(headers) == {h[2][2] : h \in {x \in headers : x[1] = "Authorization"}}

StoringOps ==
    {"setSession", "refreshResponse", "callbackResponse",
     "handleAuthenticationCallback", "handleAuthenticationRefresh"}

\* C12: in every state reachable from the empty session a stored refresh token
\* comes with a stored access token, and the step that stores a refresh token
\* is a setSession call, an answered refresh or an answered code exchange that
\* stores the access token it was given in the same step.
C12_RefreshTokenComesWithAccessToken ==
    /\ [](getRefreshToken(tokenStore) # NULL => getAccessToken(tokenStore) # NULL)
    /\ [][(getRefreshToken(tokenStore') # getRefreshToken(tokenStore)
           /\ getRefreshToken(tokenStore') # NULL) =>
              /\ lastOp'.op \in StoringOps
              /\ lastOp'.refresh = getRefreshToken(tokenStore')
              /\ lastOp'.access # NULL
              /\ getAccessToken(tokenStore') = lastOp'.access]_vars

\* A code exchange has just stored a refresh token into a session that held
\* none, together with its access token.
C12_Witness ==
    /\ lastOp.op = "callbackResponse"
    /\ lastOp.kind = "ok"
    /\ lastOp.refresh = "r1"
    /\ tokenStore = [accessToken |-> lastOp.access, refreshToken |-> "r1"]


\* The inputs of handleCallback that carry an authorization code.
CodeInputs == {"c1", "http://localhost/callback?code=c1", "/callback?code=c2"}

\* No PKCE verifier is stored, in sessionStorage or in the AuthManager.
NoVerifierStored == sessionVerifier = NULL /\ pkceVerifier = NULL

\* C13: handleCallback called with a code while no PKCE verifier is stored
\* throws the missing-verifier error, sends no token request and leaves the
\* session tokens as they were.
C13_NoVerifierThrows ==
    [][\A i \in CodeInputs :
        (NoVerifierStored /\ HandleCallback(i)) =>
            /\ lastOp'.ret = "threw"
            /\ cbError' = [name |-> "Error", message |-> "No PKCE verifier found",
                           status |-> 0, statusText |-> NULL, body |-> NULL]
            /\ cbReq' = NoExchange
            /\ authReq' = NoPost
            /\ tokenStore' = tokenStore]_vars

\* handleCallback('c1') has thrown the missing-verifier error in a logged-in
\* session, nothing in flight.
C13_Witness ==
    /\ lastOp.op = "handleCallback"
    /\ lastOp.kind = "c1"
    /\ lastOp.ret = "threw"
    /\ cbError.message = "No PKCE verifier found"
    /\ NoVerifierStored
    /\ cbReq = NoExchange
    /\ getAccessToken(tokenStore) = "a1"

\* C14: the PKCE verifier is single-use. The handleCallback step that sends
\* the code exchange leaves no verifier stored, the answer to the exchange,
\* success or failure, stores none, only generateAuthUrl stores one, and a
\* handleCallback with a code that finds none throws and sends nothing.
C14_VerifierSingleUse ==
    [][/\ (cbReq = NoExchange /\ cbReq' # NoExchange) =>
            /\ cbReq'.code_verifier \in {sessionVerifier, pkceVerifier}
            /\ sessionVerifier' = NULL /\ pkceVerifier' = NULL
       /\ (cbReq # NoExchange /\ cbReq' = NoExchange) =>
            sessionVerifier' = NULL /\ pkceVerifier' = NULL
       /\ ((sessionVerifier' # sessionVerifier /\ sessionVerifier' # NULL)
           \/ (pkceVerifier' # pkceVerifier /\ pkceVerifier' # NULL)) =>
            lastOp'.op = "generateAuthUrlResume"
       /\ \A i \in CodeInputs :
            (NoVerifierStored /\ HandleCallback(i)) =>
                lastOp'.ret = "threw" /\ cbReq' = NoExchange]_vars

\* In a browser a code exchange was answered with a non-2xx response and the
\* verifier it used is gone.
C14_Witness ==
    /\ hasWindow
    /\ lastOp.op = "callbackResponse"
    /\ lastOp.kind = "bad"
    /\ sessionVerifier = NULL
    /\ pkceVerifier = NULL

\* C15: a 2xx answer to the code exchange stores the access token and, when
\* the response carries one, the refresh token, and the session is logged in;
\* a non-2xx answer raises an IRacingAPIError carrying the status, the status
\* text and the parsed body, and leaves the session tokens unchanged.
C15_ExchangeOutcome ==
    [][\A t \in ExchangeResponses :
        HandleCallbackResponse(t) =>
            /\ t.kind = "ok" =>
                /\ getAccessToken(tokenStore') = t.access_token
                /\ getRefreshToken(tokenStore') =
                      IF t.refresh_token # NULL THEN t.refresh_token
                      ELSE getRefreshToken(tokenStore)
                /\ getAccessToken(tokenStore') \in AccessTokens
                /\ lastOp'.ret = "returned"
            /\ t.kind = "bad" =>
                /\ lastOp'.ret = "threw"
                /\ cbError'.name = "IRacingAPIError"
                /\ cbError'.status = t.status
                /\ cbError'.statusText = t.statusText
                /\ t.bodyKind = "json" => cbError'.body = t.body
                /\ tokenStore' = tokenStore]_vars

\* A code exchange answered 400 has raised the typed error with the parsed
\* body while the session set earlier is still stored.
C15_Witness ==
    /\ lastOp.op = "callbackResponse"
    /\ lastOp.ret = "threw"
    /\ cbError.name = "IRacingAPIError"
    /\ cbError.status = 400
    /\ cbError.body = "invalid_grant"
    /\ tokenStore = [accessToken |-> "a1", refreshToken |-> "r1"]


\* handleCallback(i) had no effect: it returned without an error, sent no
\* token request and left the session tokens and the stored verifier alone.
WithoutEffect ==
    /\ lastOp'.ret = "returned"
    /\ cbError' = NoError
    /\ cbReq' = NoExchange
    /\ authReq' = authReq
    /\ tokenStore' = tokenStore
    /\ sessionVerifier' = sessionVerifier
    /\ pkceVerifier' = pkceVerifier

\* C16: handleCallback returns without effect when called with no
\* argument without a window, with a URL that has no code parameter, or with a
\* URL-like string that cannot be parsed and has no code match.
C16_NoCodeNoEffect ==
    [][/\ (~hasWindow /\ HandleCallback(NULL)) => WithoutEffect
       /\ HandleCallback("http://localhost/home") => WithoutEffect
       /\ HandleCallback("http://") => WithoutEffect]_vars


\* handleAuthentication has returned or thrown and nothing was called since.
AuthenticationSettled ==
    /\ lastOp.op \in {"handleAuthentication", "handleAuthenticationCallback",
                      "handleAuthenticationRefresh"}
    /\ ha.pc = "idle"

\* C17: when handleAuthentication returns true an access token is stored, and
\* when it returns false none is, whatever the token endpoint answered to the
\* code exchange and to the refresh.
C17_ResultIsLoggedIn ==
    AuthenticationSettled =>
        /\ lastOp.ret = "true" => getAccessToken(tokenStore) \in AccessTokens
        /\ lastOp.ret = "false" => getAccessToken(tokenStore) \notin AccessTokens

\* handleAuthentication returned false after its code exchange was refused and
\* its refresh met a transport fault, the refresh token still stored.
C17_Witness ==
    /\ lastOp.op = "handleAuthenticationRefresh"
    /\ lastOp.kind = "fault"
    /\ lastOp.ret = "false"
    /\ ha = [pc |-> "idle", cb |-> "threw", rt |-> "false"]
    /\ cbError.name = "IRacingAPIError"
    /\ getRefreshToken(tokenStore) = "r1"
    /\ getAccessToken(tokenStore) \notin AccessTokens

\* C18: handleAuthentication called while an access token is stored returns
\* true at once: it sends no request, consumes no verifier, does not rewrite
\* the URL and changes no token, even when the current URL carries a code.
C18_LoggedInReturnsAtOnce ==
    [][(getAccessToken(tokenStore) \in AccessTokens /\ HandleAuthentication) =>
        /\ lastOp'.ret = "true"
        /\ ha'.pc = "idle"
        /\ cbReq' = NoExchange
        /\ authReq' = NoPost
        /\ sessionVerifier' = sessionVerifier
        /\ pkceVerifier' = pkceVerifier
        /\ location' = location
        /\ tokenStore' = tokenStore]_vars

\* handleAuthentication returned true at once in a logged-in browser session
\* whose URL carries a code and whose verifier is still stored.
C18_Witness ==
    /\ lastOp = Op("handleAuthentication", NULL, NULL, NULL, "true")
    /\ location = "http://localhost/callback?code=c1"
    /\ sessionVerifier \in Verifiers
    /\ getAccessToken(tokenStore) = "a2"
    /\ cbReq = NoExchange
    /\ authReq = NoPost

\* C19: when handleCallback throws inside handleAuthentication the exception
\* does not reach the caller: handleAuthentication goes on to
\* refreshAccessToken and its outcome is exactly that of refreshAccessToken.
C19_CallbackErrorSwallowed ==
    (ha.cb = "threw" /\ AuthenticationSettled) =>
        /\ ha.rt \in {"true", "false", "threw"}
        /\ lastOp.ret = ha.rt
        /\ lastOp.ret = "true" <=> (lastOp.op = "handleAuthenticationRefresh"
                                    /\ lastOp.kind = "ok")
        /\ lastOp.ret = "threw" =>
              (~Truthy(clientId) /\ getRefreshToken(tokenStore) \in RefreshTokens)

\* In a browser whose URL carries a code, handleCallback threw for want of a
\* verifier inside handleAuthentication, which then refreshed and returned true.
C19_Witness ==
    /\ ha = [pc |-> "idle", cb |-> "threw", rt |-> "true"]
    /\ cbError.message = "No PKCE verifier found"
    /\ lastOp.op = "handleAuthenticationRefresh"
    /\ lastOp.ret = "true"
    /\ getAccessToken(tokenStore) = lastOp.access

\* getData has returned a DataResult.
GetDataReturned == gd.pc = "done" /\ gd.result.kind = "data"

\* The fetches one getData call made: data requests, refresh POSTs and fetches
\* of the link.
Fetches == nData[Caller] + nPosts[Caller] + gd.nExt

\* C20: for every payload returned by the initial request that is an object
\* with a string link beginning with http, getData makes exactly two fetches,
\* the second without an Authorization header, and returns the payload of the
\* second with s3LinkFollowed true; for every other payload it makes exactly
\* one fetch and returns s3LinkFollowed false.
C20_LinkFollowedOnce ==
    GetDataReturned =>
        IF result[Caller].data \in {"objLinkHttp"}
        THEN /\ Fetches = 2
             /\ gd.nExt = 1
             /\ BearerTokens(gd.ext.headers) = {}
             /\ gd.result.data \in ExternalPayloads
             /\ gd.result.s3LinkFollowed = "true"
        ELSE /\ Fetches = 1
             /\ gd.result.data = result[Caller].data
             /\ gd.result.s3LinkFollowed = "false"

\* C20 amended: for every payload returned by the request pipeline that is an
\* object with a string link beginning with http, getData makes exactly one
\* fetch more than the pipeline made (one data request, or two and a refresh
\* POST after a 401), that fetch goes to the link without an Authorization
\* header, and getData returns its payload with s3LinkFollowed true; for every
\* other payload it makes no fetch beyond the pipeline's and returns the
\* pipeline's payload with s3LinkFollowed false.
C20_LinkFollowedOnceAmended ==
    /\ GetDataReturned =>
        /\ <<nData[Caller], nPosts[Caller]>> \in {<<1, 0>>, <<2, 1>>}
        /\ IF result[Caller].data \in {"objLinkHttp"}
           THEN /\ gd.nExt = 1
                /\ Fetches = IF nPosts[Caller] = 0 THEN 2 ELSE 4
                /\ gd.ext.url \in
                      {<<"https://s3.example.com/f1">>,
                       <<fileProxyUrl, "?", "url=", "https%3A%2F%2Fs3.example.com%2Ff1">>,
                       <<fileProxyUrl, "&", "url=", "https%3A%2F%2Fs3.example.com%2Ff1">>}
                /\ gd.ext.headers = {}
                /\ gd.result.data \in ExternalPayloads
                /\ gd.result.s3LinkFollowed = "true"
           ELSE /\ gd.nExt = 0
                /\ Fetches = IF nPosts[Caller] = 0 THEN 1 ELSE 3
                /\ gd.result.data = result[Caller].data
                /\ gd.result.s3LinkFollowed = "false"
    /\ gd.pc = "external" => (gd.nExt = 1 /\ gd.ext.headers = {})

\* A logged-in client's getData followed the link through the file proxy and
\* returned the file, having sent one authenticated data request.
C20_Witness ==
    /\ GetDataReturned
    /\ result[Caller].data = "objLinkHttp"
    /\ gd.result = [kind |-> "data", status |-> 200, data |-> "file1",
                    s3LinkFollowed |-> "true"]
    /\ nData[Caller] = 1
    /\ gd.nExt = 1
    /\ fileProxyUrl = "https://proxy.example.com/file"
    /\ getAccessToken(tokenStore) = "a1"


\* C21: getData follows one level of indirection: one getData call sends at
\* most one external fetch, and when the answer to that fetch is a payload that
\* itself carries an http link, getData returns that payload as the data
\* without sending a further fetch.
C21_OneLevelOfIndirection ==
    /\ [](gd.nExt <= 1)
    /\ [][\A r \in ExternalResponses :
            (ExternalResponse(r) /\ r.kind = "http" /\ ok(r) /\ followsLink(r.body))
                => /\ gd'.pc = "done"
                   /\ gd'.result.kind = "data"
                   /\ gd'.result.data = r.body
                   /\ gd'.result.s3LinkFollowed = "true"
                   /\ gd'.nExt = 1
                   /\ gd'.ext = gd.ext]_vars

\* getData followed a link and returned a payload that carries a link itself.
C21_Witness ==
    /\ GetDataReturned
    /\ result[Caller].data = "objLinkHttp"
    /\ gd.result.data = "objLinkHttp"
    /\ followsLink(gd.result.data)
    /\ gd.result.s3LinkFollowed = "true"
    /\ gd.nExt = 1


\* C22: when getData has followed an external link, the sizeBytes it reports
\* is the byte size of the initial response plus the byte size of the external
\* response, and the fetchTimeMs it reports is the initial duration plus the
\* external duration.
C22_MetadataAggregatesBothFetches ==
    (GetDataReturned /\ gd.result.s3LinkFollowed = "true")
        => /\ meta.sizeBytes = meta.initialSize + meta.externalSize
           /\ meta.fetchTimeMs = meta.initialDuration + meta.externalDuration


\* request has returned a payload.
RequestReturned == gd.pc = "returned" /\ gd.result.kind = "data"

\* C23: request never follows links: for a successful response whose payload
\* carries a link field, request returns that payload unchanged after exactly
\* one fetch and performs no external fetch.
C23_RequestNeverFollowsLinks ==
    (RequestReturned /\ hasLink(result[Caller].data))
        => /\ gd.result.data = result[Caller].data
           /\ gd.nExt = 0
           /\ Fetches = 1

\* C23 amended: request never follows links: a request call sends no external
\* fetch, and for a payload with a link field that the request pipeline
\* returned, request returns that payload unchanged after the pipeline's
\* fetches alone: one data request, or two and a refresh POST after a 401.
C23_RequestNeverFollowsLinksAmended ==
    /\ []((RequestReturned /\ hasLink(result[Caller].data))
            => /\ gd.result.data = result[Caller].data
               /\ gd.nExt = 0
               /\ gd.ext = NoExternal
               /\ <<nData[Caller], nPosts[Caller]>> \in {<<1, 0>>, <<2, 1>>}
               /\ Fetches = nData[Caller] + nPosts[Caller])
    /\ [][gd.pc = "request"
            => /\ gd'.pc \in {"request", "returned"}
               /\ gd'.nExt = 0
               /\ gd'.ext = NoExternal]_vars

\* request returned an object whose link is an http URL, as it received it,
\* after one data request.
C23_Witness ==
    /\ RequestReturned
    /\ result[Caller].data = "objLinkHttp"
    /\ gd.result.data = "objLinkHttp"
    /\ nData[Caller] = 1
    /\ nPosts[Caller] = 0
    /\ gd.nExt = 0


\* C27: for every payload returned by getData with metadata.chunkCount > 0,
\* every index i with 0 <= i < metadata.chunkCount is a valid chunk index:
\* getChunk(result.data, i) passes index validation and fetches a chunk.
C27_ChunkCountIndicesValid ==
    (GetDataReturned /\ meta.chunkCount > 0)
        => \A i \in 0 .. (meta.chunkCount - 1) :
              getChunkError(chunkInfoOf(gd.result.data), i) = NoMessage


\* C24: structural errors are raised before any network call: getChunk or
\* getChunks on a payload without a chunk descriptor, getChunk with an index
\* below 0 or not below chunk_file_names.length (the error citing the index and
\* the total), and getChunks with a start below 0 or not below totalChunks
\* each end with an error while no fetch has been sent.
C24_StructuralErrorsBeforeNetwork ==
    /\ (/\ ck.op = "getChunk"
        /\ \/ ~ck.info.present
           \/ /\ ck.info.isArray
              /\ \/ ck.index[1] < 0
                 \/ ck.index[1] >= Len(ck.info.chunk_file_names))
           => /\ ck.pc = "done"
              /\ ck.result.kind = "Error"
              /\ ck.result.message =
                    IF ~ck.info.present
                    THEN <<"Response does not contain chunk_info">>
                    ELSE <<"Invalid chunk index: ", ck.index[1], " (Total chunks: ",
                           Len(ck.info.chunk_file_names), ")">>
              /\ ck.reqs = <<>>
              /\ ck.pending = {}
    /\ (/\ ck.op = "getChunks"
        /\ \/ ~ck.info.present
           \/ /\ ck.info.isArray
              /\ ck.options.start # Omitted
              /\ \/ ck.options.start[1] < 0
                 \/ ck.options.start[1] >= Len(ck.info.chunk_file_names))
           => /\ ck.pc = "done"
              /\ ck.result.kind = "Error"
              /\ ck.result.message =
                    IF ~ck.info.present
                    THEN <<"Response does not contain chunk_info">>
                    ELSE <<"Invalid start index: ", ck.options.start[1],
                           " (Total chunks: ", Len(ck.info.chunk_file_names), ")">>
              /\ ck.reqs = <<>>
              /\ ck.pending = {}

\* getChunk(payload, 2) on a payload with two chunk file names has thrown the
\* error citing index 2 and total 2 without a fetch.
C24_Witness ==
    /\ ck.pc = "done"
    /\ ck.op = "getChunk"
    /\ ck.result.kind = "Error"
    /\ ck.result.message = <<"Invalid chunk index: ", 2, " (Total chunks: ", 2, ")">>
    /\ ck.reqs = <<>>

\* C25: for every descriptor with n >= 1 chunk file names, every start with
\* 0 <= start < n and every limit >= 0 (including 0) or omitted limit (meaning
\* n - start), getChunks fetches exactly the chunk indices in
\* [start, min(start + limit, n)), each exactly once, and no other index.
C25_ChunksRangeFetched ==
    (/\ ck.op = "getChunks"
     /\ ck.info.present /\ ck.info.isArray /\ Truthy(ck.info.base_download_url)
     /\ Len(ck.info.chunk_file_names) >= 1
     /\ ck.options.start # Omitted
     /\ ck.options.start[1] >= 0
     /\ ck.options.start[1] < Len(ck.info.chunk_file_names))
        => LET n == Len(ck.info.chunk_file_names)
               start == ck.options.start[1]
               limit == IF ck.options.limit = Omitted THEN n - start
                        ELSE ck.options.limit[1]
               end == IF start + limit <= n THEN start + limit ELSE n
           IN /\ {ck.reqs[k].index : k \in 1 .. Len(ck.reqs)} = start .. (end - 1)
              /\ Len(ck.reqs) = end - start

\* The records of the chunk files of a range, file after file.
RECURSIVE RowsInIndexOrder(_)
RowsInIndexOrder(range) ==
    IF range = <<>> THEN <<>>
    ELSE rowsOf(chunkBody(Head(range))) \o RowsInIndexOrder(Tail(range))

\* C26: getChunks merges the results in chunk index order whatever the order
\* in which the concurrent chunk fetches complete: the merged sequence is the
\* records of chunk start, then those of chunk start + 1, up to chunk end - 1.
C26_MergedInIndexOrder ==
    (ck.pc = "done" /\ ck.op = "getChunks" /\ ck.result.kind = "data")
        => /\ ck.result.data = RowsInIndexOrder(ck.range)
           /\ \A k \in 1 .. Len(ck.range) :
                 ck.range[k] = ck.range[1] + k - 1

\* getChunks of three chunks returned their records in index order although
\* the fetches were answered in the order 2, 0, 1.
C26_Witness ==
    /\ ck.pc = "done"
    /\ ck.op = "getChunks"
    /\ ck.result.kind = "data"
    /\ ck.range = <<0, 1, 2>>
    /\ ck.arrived = <<2, 0, 1>>
    /\ ck.result.data = <<<<"record", 0, 1>>, <<"record", 1, 1>>, <<"record", 1, 2>>,
                          <<"record", 2, 1>>>>


\* C28: processResponse equals the reference classification for every
\* content-type header and body: a header containing application/json gives
\* the parsed payload with the content type unchanged; a header containing
\* application/octet-stream gives the parsed payload with the type rewritten
\* to application/json and the charset suffix preserved; any other header
\* gives the raw text with the content type unchanged, even if the body is
\* valid JSON; no header gives the parsed payload and application/json when
\* the body parses, else the raw text and text/plain.
C28_ProcessResponseClassification ==
    pr.out.kind # "none" =>
        LET h == pr.header
            b == pr.body
            lower == toLowerCase(h.value)
        IN IF ~h.present
           THEN pr.out = IF parsesAsJson(b)
                         THEN Processed(jsonOf(b), HeaderValue(<<"application/json">>))
                         ELSE Processed(textOf(b), HeaderValue(<<"text/plain">>))
           ELSE IF includesType(lower, "application/json")
           THEN parsesAsJson(b) => pr.out = Processed(jsonOf(b), h)
           ELSE IF includesType(lower, "application/octet-stream")
           THEN parsesAsJson(b) =>
                   /\ pr.out.kind = "returned"
                   /\ pr.out.data = jsonOf(b)
                   /\ pr.out.contentType.present
                   /\ Head(pr.out.contentType.value) = "application/json"
                   /\ Tail(pr.out.contentType.value) = Tail(h.value)
           ELSE pr.out = Processed(textOf(b), h)

\* A sequence without its trailing slashes.
RECURSIVE WithoutTrailingSlashes(_)
WithoutTrailingSlashes(s) ==
    IF endsWithSlash(s) THEN WithoutTrailingSlashes(SubSeq(s, 1, Len(s) - 1)) ELSE s

\* A sequence without its leading slashes.
RECURSIVE WithoutLeadingSlashes(_)
WithoutLeadingSlashes(s) ==
    IF startsWithSlash(s) THEN WithoutLeadingSlashes(Tail(s)) ELSE s

\* C29: for every base URL and every resource path, whatever leading slashes
\* the path has and whatever trailing slashes the base has, the request URL
\* has exactly one slash between the base and the path.
C29_OneSlashBetweenBaseAndPath ==
    ur.url # <<>> =>
        ur.url = WithoutTrailingSlashes(ur.apiUrl) \o <<"/">>
                    \o WithoutLeadingSlashes(ur.endpoint)


\* C30: generateAuthUrl fails with a configuration error whenever clientId or
\* redirectUri is not configured, before it generates or stores a PKCE
\* verifier: the attempt storage and the session are unchanged and no URL is
\* returned.
C30_ConfigErrorBeforeVerifier ==
    /\ []((~Truthy(clientId) \/ ~Truthy(redirectUri))
            => /\ genVerifier = NULL
               /\ sessionVerifier = NULL
               /\ pkceVerifier = NULL
               /\ lastOp.op # "generateAuthUrlResume")
    /\ [][\A v \in Verifiers :
            (GenerateAuthUrl(v) /\ (~Truthy(clientId) \/ ~Truthy(redirectUri)))
                => /\ lastOp'.op = "generateAuthUrl"
                   /\ lastOp'.ret = "threw"
                   /\ genVerifier' = NULL
                   /\ sessionVerifier' = sessionVerifier
                   /\ pkceVerifier' = pkceVerifier
                   /\ tokenStore' = tokenStore
                   /\ authReq' = authReq
                   /\ cbReq' = cbReq]_vars

\* A client with a clientId and a session but no redirectUri called
\* generateAuthUrl, which threw and left the session and the storage alone.
C30_Witness ==
    /\ lastOp.op = "generateAuthUrl"
    /\ lastOp.ret = "threw"
    /\ clientId = "test_client"
    /\ redirectUri = ""
    /\ isLoggedIn(tokenStore)
    /\ sessionVerifier = NULL
    /\ pkceVerifier = NULL
    /\ genVerifier = NULL


\* The random bytes for which generateVerifier selects the character c.
BytesSelecting(c) == {b \in Bytes : charOfByte(b) = c}

\* C31: generateVerifier draws every character uniformly from the 66-character
\* unreserved set: the character it selects from a random byte is selected by
\* as many of the 256 values of the byte as every other character of the set.
C31_VerifierUniform ==
    (gv.hasCrypto /\ gv.result # <<>>)
        => \A i \in 1 .. Len(gv.result) :
              \A k \in 1 .. Len(charset) :
                 Cardinality(BytesSelecting(gv.result[i]))
                    = Cardinality(BytesSelecting(charset[k]))


\* A refresh POST is answered by t in this step, whoever sent it.
RefreshAnswered(t) ==
    \/ RefreshAccessTokenResponse(t)
    \/ HandleAuthenticationRefreshResponse(t)
    \/ \E p \in Procs : RefreshResponse(p, t)

\* A code-exchange POST is answered by t in this step.
ExchangeAnswered(t) ==
    \/ HandleCallbackResponse(t)
    \/ HandleAuthenticationCallbackResponse(t)

\* C32: the session changes only through the lifecycle events.  A step that
\* changes either token is setSession, a logout that leaves the session empty,
\* a 2xx answer to a refresh or to a code exchange that stores the access token
\* of the answer, or a non-2xx answer to a refresh that leaves the session
\* empty; every other step (a failed or no-op handleCallback, a transport fault
\* during refresh, generateAuthUrl, a data response, an external link or chunk
\* fetch, a getChunk / getChunks validation error) leaves both tokens unchanged.
C32_SessionChangesOnlyByLifecycle ==
    [][tokenStore' # tokenStore =>
        \/ \E a \in AccessTokens \cup {""}, r \in RefreshTokens \cup {NULL, ""} :
              SetSession(a, r)
        \/ Logout /\ tokenStore' = EmptyStore
        \/ \E t \in TokenResponses :
              /\ t.kind = "ok"
              /\ RefreshAnswered(t)
              /\ tokenStore'.accessToken = t.access_token
        \/ \E t \in TokenResponses :
              /\ t.kind = "bad"
              /\ RefreshAnswered(t)
              /\ tokenStore' = EmptyStore
        \/ \E t \in ExchangeResponses :
              /\ t.kind = "ok"
              /\ ExchangeAnswered(t)
              /\ tokenStore'.accessToken = t.access_token]_vars

\* A refresh whose fetch rejected, after a failed handleCallback, with the
\* session still stored.
C32_Witness ==
    /\ lastOp.op = "refreshResponse"
    /\ lastOp.kind = "fault"
    /\ cbError # NoError
    /\ isLoggedIn(tokenStore)


\* The set of the elements of a sequence.
Range(seq) == {seq[k] : k \in 1 .. Len(seq)}

\* C33: getChunks launches all requested chunk fetches before awaiting any.
\* While a getChunks call waits, and whenever the answer to one of its fetches
\* has been consumed, the fetches sent are those of every index of
\* [start, end) in loop order, and each of them has been answered or is in
\* flight; when nothing has been answered yet all of them are in flight.
C33_AllFetchesIssuedBeforeAnyAwaited ==
    (ck.op = "getChunks" /\ (ck.pc = "waiting" \/ ck.arrived # <<>>)) =>
        LET range == chunkRange(ck.options, Len(ck.info.chunk_file_names)) IN
            /\ [k \in 1 .. Len(ck.reqs) |-> ck.reqs[k].index] = range
            /\ ck.pending \cup Range(ck.arrived) = Range(range)
            /\ ck.pending \cap Range(ck.arrived) = {}
            /\ Cardinality(ck.pending) + Len(ck.arrived) = Len(range)

\* A getChunks call over three chunks, the first answer consumed while the
\* other two fetches are in flight.
C33_Witness ==
    /\ ck.op = "getChunks"
    /\ ck.pc = "waiting"
    /\ Len(ck.range) = 3
    /\ Len(ck.arrived) = 1
    /\ Cardinality(ck.pending) = 2


\* A non-2xx status other than 401.
OtherError(r) == r.kind = "http" /\ ~ok(r) /\ r.status # 401

\* C34: a non-2xx response other than 401 to a data request never triggers a
\* refresh or a retry.  The step in which an invocation receives such a first
\* response ends the invocation with the typed API error of that status, after
\* one data request and no token-endpoint request, and leaves the session as it
\* was; and a step that sends a refresh POST or a second data request belongs
\* to an invocation whose last response was a 401.
C34_OtherErrorsNeitherRefreshNorRetry ==
    [][\A p \in Procs :
        /\ (pc[p] = "first" /\ pc'[p] # "first" /\ OtherError(received'[p])) =>
              /\ pc'[p] = "done"
              /\ nData'[p] = 1
              /\ nPosts'[p] = 0
              /\ tokenReq'[p] = NoPost
              /\ result'[p] = handleErrorResponse(received'[p])
              /\ result'[p].status = received'[p].status
              /\ tokenStore' = tokenStore
        /\ (nPosts'[p] > nPosts[p] \/ (nData[p] >= 1 /\ nData'[p] > nData[p])) =>
              received'[p].status = 401]_vars

\* One invocation ended by a 403 and another by a 500, the session stored.
C34_Witness ==
    /\ pc[1] = "done" /\ received[1].status = 403 /\ nData[1] = 1
    /\ result[1].kind = "IRacingAPIError" /\ result[1].status = 403
    /\ pc[2] = "done" /\ received[2].status = 500 /\ nData[2] = 1
    /\ tokenStore.refreshToken # NULL


\* The steps of the pipeline and of the AuthManager that send a request to the
\* data API or to the token endpoint leave their counters and slots as they are.
NoApiTraffic ==
    UNCHANGED <<authVars, pc, url, req, tokenReq, response, received, refreshed,
                granted, nData, nPosts, result>>

\* C35: external fetches never carry an Authorization header and never enter
\* the refresh-and-retry path.  The request for a followed link and every
\* request for a chunk file are sent without headers, each URL is requested
\* once, and the step in which an external fetch is answered with 401 or
\* another non-2xx status ends the call with the typed API error of that
\* status, sends no request to the data API, to the token endpoint or to the
\* file host, and leaves the session unchanged.
C35_ExternalFetchesUnauthenticated ==
    /\ [](/\ gd.ext.headers = {}
          /\ gd.nExt <= 1
          /\ \A k \in 1 .. Len(ck.reqs) :
                /\ ck.reqs[k].headers = {}
                /\ \A j \in 1 .. Len(ck.reqs) : ck.reqs[j].url = ck.reqs[k].url => j = k)
    /\ [][/\ \A r \in ExternalResponses :
               (~ok(r) /\ r.kind = "http" /\ ExternalResponse(r)) =>
                   /\ gd'.pc = "done"
                   /\ gd'.result = Thrown(handleErrorResponse(r))
                   /\ gd'.result.kind = "IRacingAPIError"
                   /\ gd'.result.status = r.status
                   /\ gd'.nExt = 1
                   /\ gd'.ext = gd.ext
                   /\ NoApiTraffic
          /\ (ck.pc = "waiting" /\ ck'.pc = "done" /\ ck'.result.kind # "data") =>
                   /\ ck'.result.kind \in {"IRacingAPIError", "TypeError"}
                   /\ ck'.result.kind = "IRacingAPIError" =>
                         ck'.result.status \in {401, 403}
                   /\ ck'.reqs = ck.reqs
                   /\ NoApiTraffic]_vars

\* getData of a logged-in client whose followed link was answered with 401.
C35_Witness ==
    /\ gd.pc = "done"
    /\ gd.nExt = 1
    /\ gd.result.kind = "IRacingAPIError"
    /\ gd.result.status = 401
    /\ nData[Caller] = 1
    /\ nPosts[Caller] = 0
    /\ isLoggedIn(tokenStore)


\* The indices whose fetch was answered with a failure.
failedChunks == Range(ck.arrived) \ {g.index : g \in ck.got}

\* C36: if any one of the chunk fetches started by getChunks fails (non-2xx
\* response or rejected fetch), getChunks rejects with that error and returns
\* no partially merged data; the failed chunk is not fetched again, the batch
\* is not retried, and the session is unchanged.  A getChunks call with a
\* failed fetch has ended with the typed API error or the rejection, without
\* rows, after one request per index of the range; it returns data only when
\* every fetch of the range succeeded.
C36_FailedChunkRejectsWholeBatch ==
    ck.op = "getChunks" =>
        /\ failedChunks # {} =>
              /\ ck.pc = "done"
              /\ ck.result.kind \in {"IRacingAPIError", "TypeError"}
              /\ ck.result.data = <<>>
              /\ ck.result.sizeBytes = 0
              /\ Cardinality(failedChunks) = 1
              /\ [k \in 1 .. Len(ck.reqs) |-> ck.reqs[k].index] = ck.range
              /\ tokenStore = [accessToken |-> "a1", refreshToken |-> "r1"]
              /\ authReq = NoPost
              /\ \A p \in Procs : tokenReq[p] = NoPost /\ nData[p] = 0
        /\ ck.result.kind = "data" =>
              {g.index : g \in ck.got} = Range(ck.range)

\* A getChunks call over three chunks rejected by the failure of the second
\* answer, the third fetch still in flight.
C36_Witness ==
    /\ ck.op = "getChunks"
    /\ ck.pc = "done"
    /\ Len(ck.range) = 3
    /\ Cardinality(ck.got) = 1
    /\ Cardinality(failedChunks) = 1
    /\ Cardinality(ck.pending) = 1
    /\ ck.result.kind = "IRacingAPIError"


\* C37: with two concurrent request invocations that both receive 401 and both
\* start a refresh with the same stored refresh token, once both invocations
\* have completed the session is LoggedIn whenever at least one of the two
\* refreshes was answered 2xx.
C37_SuccessfulRefreshSurvives ==
    \A p, q \in Procs :
        (/\ p # q
         /\ pc[p] = "done" /\ pc[q] = "done"
         /\ nPosts[p] = 1 /\ nPosts[q] = 1
         /\ refreshed[p] = "true") =>
            isLoggedIn(tokenStore)


\* C38: a completed logout is not undone by an operation started before it.
\* When logout() was the last operation called while a refresh POST sent before
\* it is still in flight, the session is still empty after the answer to that
\* POST has been handled.
C38_LogoutNotUndone ==
    [][(lastOp.op = "logout" /\ authReq # NoPost /\ authReq' = NoPost) =>
          tokenStore' = EmptyStore]_vars


\* The invocations of handleCallback that sent a code exchange.
exchangers == {p \in Procs : cb[p].body # NoExchange}

\* C39: under every interleaving of concurrently invoked handleCallback calls,
\* at most one code-exchange POST is sent per verifier stored by
\* generateAuthUrl.  With one verifier stored, at most one invocation sends an
\* exchange; it carries that verifier and leaves none stored, and every
\* invocation that went on to look for the verifier after it has thrown
\* 'No PKCE verifier found' without sending a request.
C39_OneExchangePerVerifier ==
    /\ Cardinality(exchangers) <= 1
    /\ \A p \in exchangers :
          /\ lastOp.op = "generateAuthUrlResume"
          /\ cb[p].body.code_verifier \in Verifiers
          /\ sessionVerifier = NULL
          /\ pkceVerifier = NULL
          /\ \A q \in Procs \ {p} :
                cb[q].pc \in {"idle", "returned"} \/ cb[q].error = NoVerifierError
    /\ \A p \in Procs : cb[p].pc = "exchange" => p \in exchangers

\* One invocation awaiting its exchange while a second one, made after it, has
\* thrown for want of a verifier.
C39_Witness ==
    \E p, q \in Procs :
        /\ cb[p].pc = "exchange"
        /\ cb[p].body.code_verifier \in Verifiers
        /\ cb[q].pc = "threw"
        /\ cb[q].error = NoVerifierError
        /\ lastOp.op = "generateAuthUrlResume"


====
